---------------------------- MODULE Spec2Model ----------------------------
(***************************************************************************)
(* A model of the quest-sage client's rendering core:                      *)
(*   - MultiBatch (graphics/multi_batch.rs): the depth-first walk of a     *)
(*     MultiRenderable tree that groups draws into flushes;                *)
(*   - Batch (graphics/batch.rs): the vertex/index accumulator;            *)
(*   - RichText (ui/text.rs): set_text and the background typesetting      *)
(*     tasks that commit under a text id;                                  *)
(*   - TypesetText.render (ui/text.rs): the memo of glyph rectangles keyed *)
(*     by the glyph cache's generation.                                    *)
(* Each part has its own next-state relation and specification over the    *)
(* shared variable tuple; a part leaves the other parts' variables alone.  *)
(***************************************************************************)
EXTENDS Integers, Sequences, FiniteSets, TLC

(***************************************************************************)
(* Bounds of the model                                                     *)
(***************************************************************************)
\* Nodes of the MultiRenderable tree handed to MultiBatch.render.
MaxNodes == 5
\* Nesting depth of Layered/Adjacent nodes.
MaxDepth == 2
\* Renderables Batch.render takes from its iterator in the modelled part of a
\* call.
MaxItems == 3
\* Calls of set_text on the RichText.
MaxSetText == 2
\* Calls made on the builder whose text is typeset line by line.
MaxBuilderCalls == 3
\* The widest margin of a nine-patch, in pixels.
MaxMargin == 2
\* The widest and tallest rectangle a nine-patch is drawn into.
MaxExtent == 4
\* Tasks that call get_font_id at the same time.
MaxFontIdTasks == 3
\* Font ids issued before no further call is made.
MaxFontIds == 6
\* Read guards of FONT_ID_TO_FONT_MAP held at the same time.
MaxFontMapReaders == 1
\* Repackings of the glyph cache (the generation counter is a u64: it does
\* not wrap in any run that can be made).
MaxReorderings == 2

VARIABLES
    \* ---- MultiBatch.render -------------------------------------------
    mb_pc,                  \* position of render: "walk", "final", "done"
    stack,                  \* the open Layered/Adjacent loops of incremental_render
    budget,                 \* nodes of the input tree not yet laid out
    text_render_data,       \* pending text runs
    batch_render_data,      \* pending shape renderables
    batch_render_texture,   \* texture committed for the pending shapes
    loaded,                 \* texture assets seen loaded so far
    draws,                  \* the draw calls issued, in submission order
    flushes,                \* the perform_render calls made, in order
    segment,                \* number of layer-boundary flushes made so far
    prev_node_texture,      \* texture of the last Image/ImageRegion node walked
    transitions,            \* T: texture-compatibility transitions walked
    boundaries,             \* L: explicit layer boundaries of the tree
    last_node,              \* the node walked by the last step
    \* ---- Batch.render ------------------------------------------------
    b_pc,                   \* position of render: "loop", "done"
    b_left,                 \* items the iterator may still yield
    verts,                  \* Vec<Vertex>: the accumulated vertices
    inds,                   \* Vec<u16>: the accumulated indices
    next_vertex,            \* place in the input of the next vertex
    batch_draws,            \* the draw calls flush has issued, in order
    flush_calls,            \* number of calls of flush
    last_add,               \* the last primitive added and how
    \* ---- RichText ----------------------------------------------------
    rich_text,              \* RichTextContents, behind the RwLock
    builders,               \* the unfinished builders, by text_id
    tasks,                  \* the spawned typesetting tasks, by text_id
    commit_log,             \* the calls of RichTextContents::write, in order
    \* ---- TypesetText.render -------------------------------------------
    cache,                  \* the glyph cache: queue, cached glyphs, packing
    font_texture_loaded,    \* the font texture asset has been seen loaded
    renderer_generation,    \* the cache_generation held by the TextRenderer
    texts,                  \* the TypesetText objects drawn with the cache
    last_render,            \* what the last call of render did
    render_panicked,        \* a call of render has panicked
    \* ---- typeset_rich_text -------------------------------------------
    ts_pc,                  \* "idle", "typesetting", "stalled", "done"
    ts_paragraphs,          \* the paragraphs being typeset
    ts_max_width,           \* the max_width they are typeset with
    ts_paragraph,           \* which paragraph the `for` loop is at
    ts_segments,            \* `segments`: what is left of that paragraph
    ts_acc,                 \* glyphs, caret_y, largest_line_width
    ts_lines,               \* the calls of typeset_rich_text_line, in order
    ts_result,              \* the TypesetText returned
    \* ---- NinePatch.generate_render_info -------------------------------
    np_patch,               \* the NinePatch and its texture region
    np_result,              \* the last call of generate_render_info
    \* ---- get_font_id --------------------------------------------------
    FONT_ID_MAP,            \* specifier -> font id, behind its RwLock
    FONT_ID_TO_FONT_MAP,    \* font id -> font asset, behind its RwLock
    FONT_ID_COUNTER,        \* the next font id
    fi_locks,               \* who holds the two locks
    fi_tasks,               \* the tasks calling get_font_id
    fi_inserts,             \* the ids inserted into FONT_ID_TO_FONT_MAP, in order
    fi_returns,             \* the (specifier, id) pairs get_font_id returned
    \* ---- Widget and UI ------------------------------------------------
    widgets,                \* the WidgetContents made so far
    uis,                    \* the UIs made so far, each with its flag
    ui_pc,                  \* where each generate_render_info is
    ui_render,              \* what the generate_render_info just returned
    ui_mutated,             \* a change was made since the UI was laid out
    last_mutation,          \* the change just made and the flag it stored
    last_force,             \* the force_layout just called and what it stored
    \* ---- Button --------------------------------------------------------
    btn_state,              \* Button.state
    btn_disabled,           \* the shared AtomicBool
    btn_pc,                 \* where the process_mouse_input in progress is
    btn_event,              \* the event a process_mouse_input is handling
    btn_loaded,             \* what that call loaded from the flag
    btn_clicks,             \* the calls of on_click made so far
    btn_last,               \* the process_mouse_input that just returned
    \* ---- AssetPath -----------------------------------------------------
    ap_segments,            \* the segments AssetPath::new is called with
    ap_path,                \* what that call returned, or that it panicked
    ap_again,               \* what AssetPath::new returned for that path
    \* ---- Camera --------------------------------------------------------
    camera,                 \* the Camera: its data and its two caches
    cam_borrowed,           \* a &mut CameraData from get_data_mut is alive
    cam_returned,           \* the matrix a getter just returned
    \* ---- TextureRegion.info ---------------------------------------------
    info_lock,              \* who holds the Mutex around TextureRegion.info
    on_load_pc,             \* where the on_load callback is
    render_pc,              \* where the generate_render_info in progress is
    info_writes,            \* how many times info was written
    info_panics,            \* who panicked at try_lock().unwrap()
    \* ---- the locks taken while typesetting ------------------------------
    tl_tasks,               \* where each typesetting task is
    tl_locks                \* who holds each lock, writing or reading

mbVars == <<mb_pc, stack, budget, text_render_data, batch_render_data,
            batch_render_texture, loaded, draws, flushes, segment,
            prev_node_texture, transitions, boundaries, last_node>>

bVars == <<b_pc, b_left, verts, inds, next_vertex, batch_draws, flush_calls,
           last_add>>

rtVars == <<rich_text, builders, tasks, commit_log>>

trVars == <<cache, font_texture_loaded, renderer_generation, texts,
            last_render, render_panicked>>

tsVars == <<ts_pc, ts_paragraphs, ts_max_width, ts_paragraph, ts_segments,
            ts_acc, ts_lines, ts_result>>

npVars == <<np_patch, np_result>>

fiVars == <<FONT_ID_MAP, FONT_ID_TO_FONT_MAP, FONT_ID_COUNTER, fi_locks,
            fi_tasks, fi_inserts, fi_returns>>

uiVars == <<widgets, uis, ui_pc, ui_render, ui_mutated, last_mutation,
            last_force>>

btnVars == <<btn_state, btn_disabled, btn_pc, btn_event, btn_loaded,
             btn_clicks, btn_last>>

apVars == <<ap_segments, ap_path, ap_again>>

camVars == <<camera, cam_borrowed, cam_returned>>

trgVars == <<info_lock, on_load_pc, render_pc, info_writes, info_panics>>

tlVars == <<tl_tasks, tl_locks>>

vars == <<mbVars, bVars, rtVars, trVars, tsVars,
         npVars,
         fiVars,
         uiVars,
         btnVars,
         apVars,
         camVars,
         trgVars,
         tlVars>>

(***************************************************************************)
(* MultiBatch: data                                                        *)
(***************************************************************************)
\* Lengths of the Vec<Renderable> an Image/ImageRegion node may carry.
RenderableCounts == {0, 1}

\* Asset<Texture> handles.
Textures == {"t1", "t2"}
\* Asset<PartitionedTexture> handles.
PartitionedTextures == {"p1"}
\* TextureRegion values: a region names its partitioned texture.
TextureRegions ==
    { [name |-> "ra", partitioned_texture |-> "p1"],
      [name |-> "rb", partitioned_texture |-> "p1"] }

\* enum BatchRenderTexture
Nothing == [variant |-> "Nothing", asset |-> "none"]
Texture(tex) == [variant |-> "Texture", asset |-> tex]
PartitionedTexture(tex) == [variant |-> "PartitionedTexture", asset |-> tex]

\* compatible_with with the final comparison inverted (`!=` for `==`).
compatible_with_inverted(self, other) ==
    IF self = Nothing \/ other = Nothing
    THEN TRUE
    ELSE self # other

\* compatible_with without the sentinel case: plain equality.
compatible_with_strict(self, other) == self = other

\* BatchRenderTexture::compatible_with
compatible_with(self, other) ==
    IF self = Nothing \/ other = Nothing
    THEN TRUE
    ELSE self = other

\* Asset::if_loaded: the closure runs iff the asset has finished loading.
\* An asset seen loaded stays loaded; one not yet seen loaded may have
\* finished loading by the time of this call (arrives).
if_loaded(asset, seen, arrives) == asset \in seen \/ arrives

\* The path of a child of an open loop: the loop's path and the child's place.
ChildPath(frame) == Append(frame.path, <<frame.kind, frame.index>>)

\* Vec<Renderable> of an Image/ImageRegion node: n renderables, each tagged
\* with the node that supplied it and that node's texture.
Renderables(path, src, tex, n) ==
    [k \in 1..n |-> [path |-> path, src |-> src, tex |-> tex, k |-> k]]

\* perform_render handing the pending text to the text renderer one word at a
\* time instead of as one list.
perform_render_per_word(text, data, tex, isLoaded, cause, seg, flushNo) ==
    LET drawn == data # <<>> /\ tex # Nothing /\ isLoaded
    IN  [ text  |-> <<>>,
          data  |-> IF drawn THEN <<>> ELSE data,
          tex   |-> IF data # <<>> THEN Nothing ELSE tex,
          draws |-> [i \in 1..Len(text) |->
                        [batch |-> "text", tex |-> Nothing,
                         items |-> <<text[i]>>, cause |-> cause,
                         seg |-> seg, flush |-> flushNo]]
                    \o (IF drawn
                        THEN << [batch |-> "shape", tex |-> tex,
                                 items |-> data, cause |-> cause,
                                 seg |-> seg, flush |-> flushNo] >>
                        ELSE <<>>) ]

\* perform_render with take(self.text_render_data) moved into the if_loaded
\* closure: the pending text stays pending unless the shapes are drawn.
perform_render_text_in_closure(text, data, tex, isLoaded, cause, seg, flushNo) ==
    LET textDraws ==
            IF text # <<>>
            THEN << [batch |-> "text", tex |-> Nothing, items |-> text,
                     cause |-> cause, seg |-> seg, flush |-> flushNo] >>
            ELSE <<>>
        drawn == data # <<>> /\ tex # Nothing /\ isLoaded
    IN  [ text  |-> IF drawn THEN <<>> ELSE text,
          data  |-> IF drawn THEN <<>> ELSE data,
          tex   |-> IF data # <<>> THEN Nothing ELSE tex,
          draws |-> textDraws
                    \o (IF drawn
                        THEN << [batch |-> "shape", tex |-> tex,
                                 items |-> data, cause |-> cause,
                                 seg |-> seg, flush |-> flushNo] >>
                        ELSE <<>>) ]

(***************************************************************************)
(* MultiBatchRenderState::perform_render, as a function of the pending     *)
(* state.  isLoaded is the outcome of if_loaded on the committed texture.  *)
(***************************************************************************)
perform_render(text, data, tex, isLoaded, cause, seg, flushNo) ==
    LET textDraws ==
            IF text # <<>>
            THEN << [batch |-> "text", tex |-> Nothing, items |-> text,
                     cause |-> cause, seg |-> seg, flush |-> flushNo] >>
            ELSE <<>>
        drawn == data # <<>> /\ tex # Nothing /\ isLoaded
        shapeDraws ==
            IF drawn
            THEN << [batch |-> "shape", tex |-> tex, items |-> data,
                     cause |-> cause, seg |-> seg, flush |-> flushNo] >>
            ELSE <<>>
    IN  [ text  |-> <<>>,
          \* take(self.batch_render_data) sits inside the if_loaded closure
          data  |-> IF drawn THEN <<>> ELSE data,
          \* std::mem::replace(self.batch_render_texture, Nothing)
          tex   |-> IF data # <<>> THEN Nothing ELSE tex,
          draws |-> textDraws \o shapeDraws ]

\* Does this perform_render consult the asset's load state?
ChecksAsset(data, tex) == data # <<>> /\ tex # Nothing

\* The load outcomes a perform_render can meet.
LoadOutcomes(data, tex) ==
    IF ChecksAsset(data, tex) /\ tex.asset \notin loaded
    THEN BOOLEAN
    ELSE {FALSE}

\* The record kept of one perform_render call: why it was made, in which
\* layer segment, and whether it found pending shapes whose committed texture
\* was not loaded (and which shapes those were).
FlushRecord(cause, data, tex, isLoaded) ==
    [cause |-> cause, seg |-> segment,
     miss |-> ChecksAsset(data, tex) /\ ~isLoaded,
     pending |-> IF ChecksAsset(data, tex) /\ ~isLoaded THEN data ELSE <<>>]

\* One perform_render on the current state, for the given cause.
DoPerformRender(cause, arrives) ==
    LET isLoaded == if_loaded(batch_render_texture.asset, loaded, arrives)
        r == perform_render(text_render_data, batch_render_data,
                            batch_render_texture, isLoaded, cause, segment,
                            Len(flushes) + 1)
    IN  /\ text_render_data' = r.text
        /\ batch_render_data' = r.data
        /\ batch_render_texture' = r.tex
        /\ draws' = draws \o r.draws
        /\ flushes' = Append(flushes,
               FlushRecord(cause, batch_render_data, batch_render_texture,
                           isLoaded))
        /\ loaded' = IF ChecksAsset(batch_render_data, batch_render_texture)
                        /\ isLoaded
                     THEN loaded \cup {batch_render_texture.asset}
                     ELSE loaded

(***************************************************************************)
(* MultiBatch: the walk                                                    *)
(***************************************************************************)
NoNode == [kind |-> "None", path |-> <<>>, src |-> "none", tex |-> Nothing,
           renderables |-> <<>>]

\* MultiBatch::render, up to the call of incremental_render on the root.
MBInit ==
    /\ mb_pc = "walk"
    /\ stack = << [kind |-> "Root", n |-> 1, index |-> 0, path |-> <<>>,
                   flushed |-> TRUE] >>
    /\ budget = MaxNodes - 1
    /\ text_render_data = <<>>
    /\ batch_render_data = <<>>
    /\ batch_render_texture = Nothing
    /\ loaded = {}
    /\ draws = <<>>
    /\ flushes = <<>>
    /\ segment = 0
    /\ prev_node_texture = Nothing
    /\ transitions = 0
    /\ boundaries = 0
    /\ last_node = NoNode

\* No MultiBatch::render call is in progress.
MBIdle ==
    /\ mb_pc = "done"
    /\ stack = <<>>
    /\ budget = 0
    /\ text_render_data = <<>>
    /\ batch_render_data = <<>>
    /\ batch_render_texture = Nothing
    /\ loaded = {}
    /\ draws = <<>>
    /\ flushes = <<>>
    /\ segment = 0
    /\ prev_node_texture = Nothing
    /\ transitions = 0
    /\ boundaries = 0
    /\ last_node = NoNode

Top == stack[Len(stack)]

\* The loop at the top of the stack has a child left to walk, and any flush
\* due before that child has been made.
ChildReady ==
    /\ mb_pc = "walk"
    /\ Top.index < Top.n
    /\ Top.flushed

\* After walking a child: the loop moves to its next child; a Layered loop
\* owes a perform_render before it.
Advanced(frame) ==
    [frame EXCEPT !.index = @ + 1,
                  !.flushed = ~(frame.kind = "Layered")]

AdvanceTop == [stack EXCEPT ![Len(stack)] = Advanced(@)]

\* Layered: `if index != 0 { self.perform_render(batch).await; }`
LayerFlush ==
    /\ mb_pc = "walk"
    /\ Top.index < Top.n
    /\ ~Top.flushed
    /\ \E arrives \in LoadOutcomes(batch_render_data, batch_render_texture) :
           DoPerformRender("layer", arrives)
    /\ segment' = segment + 1
    /\ stack' = [stack EXCEPT ![Len(stack)].flushed = TRUE]
    /\ last_node' = NoNode
    /\ UNCHANGED <<mb_pc, budget, prev_node_texture, transitions, boundaries>>

\* A loop whose children are all walked returns to its caller's loop.
Return ==
    /\ mb_pc = "walk"
    /\ Len(stack) > 1
    /\ Top.index = Top.n
    /\ stack' = [SubSeq(stack, 1, Len(stack) - 1)
                   EXCEPT ![Len(stack) - 1] = Advanced(@)]
    /\ last_node' = NoNode
    /\ UNCHANGED <<mb_pc, budget, text_render_data, batch_render_data,
                   batch_render_texture, loaded, draws, flushes, segment,
                   prev_node_texture, transitions, boundaries>>

\* MultiRenderable::Nothing => {}
VisitNothing ==
    /\ ChildReady
    /\ stack' = AdvanceTop
    /\ last_node' = [NoNode EXCEPT !.kind = "Nothing", !.path = ChildPath(Top)]
    /\ UNCHANGED <<mb_pc, budget, text_render_data, batch_render_data,
                   batch_render_texture, loaded, draws, flushes, segment,
                   prev_node_texture, transitions, boundaries>>

\* The Layered loop without `if index != 0`: a perform_render is owed before
\* the first child as well.
VisitList_flush_before_first(kind, n) ==
    /\ ChildReady
    /\ Len(stack) <= MaxDepth
    /\ n <= budget
    /\ budget' = budget - n
    /\ stack' = Append(stack, [kind |-> kind, n |-> n, index |-> 0,
                               path |-> ChildPath(Top),
                               flushed |-> kind # "Layered"])
    /\ boundaries' = IF kind = "Layered" /\ n >= 1
                     THEN boundaries + (n - 1)
                     ELSE boundaries
    /\ last_node' = [NoNode EXCEPT !.kind = kind, !.path = ChildPath(Top)]
    /\ UNCHANGED <<mb_pc, text_render_data, batch_render_data,
                   batch_render_texture, loaded, draws, flushes, segment,
                   prev_node_texture, transitions>>

\* MultiRenderable::Layered(layers) / MultiRenderable::Adjacent(items): the
\* loop over the n children is opened.
VisitList(kind, n) ==
    /\ ChildReady
    /\ Len(stack) <= MaxDepth
    /\ n <= budget
    /\ budget' = budget - n
    /\ stack' = Append(stack, [kind |-> kind, n |-> n, index |-> 0,
                               path |-> ChildPath(Top), flushed |-> TRUE])
    /\ boundaries' = IF kind = "Layered" /\ n >= 1
                     THEN boundaries + (n - 1)
                     ELSE boundaries
    /\ last_node' = [NoNode EXCEPT !.kind = kind, !.path = ChildPath(Top)]
    /\ UNCHANGED <<mb_pc, text_render_data, batch_render_data,
                   batch_render_texture, loaded, draws, flushes, segment,
                   prev_node_texture, transitions>>

VisitLayered == \E n \in 0..MaxNodes : VisitList("Layered", n)

VisitAdjacent == \E n \in 0..MaxNodes : VisitList("Adjacent", n)

\* The Text arm pushing its entry twice.
VisitText_pushed_twice ==
    /\ ChildReady
    /\ text_render_data' =
           text_render_data
               \o << [path |-> ChildPath(Top), src |-> "word", tex |-> Nothing,
                      k |-> 1],
                     [path |-> ChildPath(Top), src |-> "word", tex |-> Nothing,
                      k |-> 1] >>
    /\ stack' = AdvanceTop
    /\ last_node' = [NoNode EXCEPT !.kind = "Text", !.path = ChildPath(Top)]
    /\ UNCHANGED <<mb_pc, budget, batch_render_data, batch_render_texture,
                   loaded, draws, flushes, segment, prev_node_texture,
                   transitions, boundaries>>

\* MultiRenderable::Text { word, offset }
VisitText ==
    /\ ChildReady
    /\ text_render_data' =
           Append(text_render_data,
                  [path |-> ChildPath(Top), src |-> "word", tex |-> Nothing,
                   k |-> 1])
    /\ stack' = AdvanceTop
    /\ last_node' = [NoNode EXCEPT !.kind = "Text", !.path = ChildPath(Top)]
    /\ UNCHANGED <<mb_pc, budget, batch_render_data, batch_render_texture,
                   loaded, draws, flushes, segment, prev_node_texture,
                   transitions, boundaries>>

\* The body shared by the Image and ImageRegion arms.
VisitShapes(kind, src, new_render_texture, n) ==
    LET renderables == Renderables(ChildPath(Top), src, new_render_texture, n)
    IN
    /\ ChildReady
    /\ IF ~compatible_with(batch_render_texture, new_render_texture)
       THEN \E arrives \in LoadOutcomes(batch_render_data, batch_render_texture) :
              LET isLoaded == if_loaded(batch_render_texture.asset, loaded, arrives)
                  r == perform_render(text_render_data, batch_render_data,
                                      batch_render_texture, isLoaded, "texture",
                                      segment, Len(flushes) + 1)
              IN  /\ text_render_data' = r.text
                  /\ batch_render_data' = r.data \o renderables
                  /\ draws' = draws \o r.draws
                  /\ flushes' = Append(flushes,
                        FlushRecord("texture", batch_render_data,
                                    batch_render_texture, isLoaded))
                  /\ loaded' = IF ChecksAsset(batch_render_data,
                                              batch_render_texture) /\ isLoaded
                               THEN loaded \cup {batch_render_texture.asset}
                               ELSE loaded
       ELSE /\ batch_render_data' = batch_render_data \o renderables
            /\ UNCHANGED <<text_render_data, draws, flushes, loaded>>
    /\ batch_render_texture' = new_render_texture
    /\ transitions' = IF prev_node_texture # Nothing
                         /\ prev_node_texture # new_render_texture
                      THEN transitions + 1
                      ELSE transitions
    /\ prev_node_texture' = new_render_texture
    /\ stack' = AdvanceTop
    /\ last_node' = [kind |-> kind, path |-> ChildPath(Top), src |-> src,
                     tex |-> new_render_texture, renderables |-> renderables]
    /\ UNCHANGED <<mb_pc, budget, segment, boundaries>>

\* MultiRenderable::Image { texture, renderables }
VisitImage ==
    \E texture \in Textures, n \in RenderableCounts :
        VisitShapes("Image", texture, Texture(texture), n)

\* MultiRenderable::ImageRegion { texture, renderables }
VisitImageRegion ==
    \E texture \in TextureRegions, n \in RenderableCounts :
        VisitShapes("ImageRegion", texture.name,
                    PartitionedTexture(texture.partitioned_texture), n)

\* incremental_render(renderable) has returned to MultiBatch::render.
WalkDone ==
    /\ mb_pc = "walk"
    /\ Len(stack) = 1
    /\ Top.index = Top.n
    /\ mb_pc' = "final"
    /\ last_node' = NoNode
    /\ UNCHANGED <<stack, budget, text_render_data, batch_render_data,
                   batch_render_texture, loaded, draws, flushes, segment,
                   prev_node_texture, transitions, boundaries>>

\* MultiBatch::render: `state.perform_render(self).await;`
FinalFlush ==
    /\ mb_pc = "final"
    /\ \E arrives \in LoadOutcomes(batch_render_data, batch_render_texture) :
           DoPerformRender("final", arrives)
    /\ mb_pc' = "done"
    /\ last_node' = NoNode
    /\ UNCHANGED <<stack, budget, segment, prev_node_texture, transitions,
                   boundaries>>

(***************************************************************************)
(* Batch (graphics/batch.rs)                                               *)
(***************************************************************************)
MAX_VERTEX_COUNT == 40960
MAX_INDEX_COUNT == 81920

\* The width of an index: `verts.len() as u16`, and u16 additions.
U16 == 65536

\* Primitives a render call may already have taken from its iterator when
\* the modelled part of the call begins: this many Quadrilaterals followed by
\* this many Triangles.
PriorQuadrilaterals == {0, 10238, 10239, 10240}
PriorTriangles == {0, 1, 2}

\* A vertex is named by its place in the input (1, 2, ...): the vertices of
\* the first item, then those of the second, and so on.
NewVertices(first, n) == [k \in 1..n |-> first + k - 1]

\* A Triangle with i0 taken after its vertices were pushed.
TriangleIndices_after_push(i0) ==
    << (i0 + 3) % U16, (i0 + 4) % U16, (i0 + 5) % U16 >>

\* The indices pushed for a Triangle whose first vertex lands at position i0.
TriangleIndices(i0) == << i0, (i0 + 1) % U16, (i0 + 2) % U16 >>

\* A Quadrilateral as the strip 0-1-2, 1-2-3 in place of the fan.
QuadrilateralIndices_strip(i0) ==
    << i0, (i0 + 1) % U16, (i0 + 2) % U16,
       (i0 + 1) % U16, (i0 + 2) % U16, (i0 + 3) % U16 >>

\* The indices pushed for a Quadrilateral whose first vertex lands at i0.
QuadrilateralIndices(i0) ==
    << i0, (i0 + 1) % U16, (i0 + 2) % U16, i0, (i0 + 2) % U16, (i0 + 3) % U16 >>

(***************************************************************************)
(* The two vectors of a render call hold tens of thousands of elements near *)
(* capacity.  A vector is kept as [q, t, tail]: the elements pushed for the *)
(* call's first q Quadrilaterals and following t Triangles (a function of   *)
(* q and t alone, none of them having caused a flush), then the elements    *)
(* of tail.                                                                 *)
(***************************************************************************)
\* Vec::new(), and the vector after clear().
EmptyVec == [q |-> 0, t |-> 0, tail |-> <<>>]

\* The vertex vector after q Quadrilaterals and t Triangles: its length and
\* its k-th element.
PriorVertsLen(q, t) == 4 * q + 3 * t
PriorVert(q, t, k) == k

\* The index vector after q Quadrilaterals and t Triangles: its length and
\* its k-th element.
PriorIndsLen(q, t) == 6 * q + 3 * t
PriorInd(q, t, k) ==
    IF k <= 6 * q
    THEN QuadrilateralIndices((4 * ((k - 1) \div 6)) % U16)[((k - 1) % 6) + 1]
    ELSE TriangleIndices((4 * q + 3 * ((k - 6 * q - 1) \div 3)) % U16)
             [((k - 6 * q - 1) % 3) + 1]

\* verts.len(), verts[k - 1]
VertsLen(v) == PriorVertsLen(v.q, v.t) + Len(v.tail)
VertAt(v, k) ==
    IF k <= PriorVertsLen(v.q, v.t)
    THEN PriorVert(v.q, v.t, k)
    ELSE v.tail[k - PriorVertsLen(v.q, v.t)]

\* inds.len(), inds[k - 1]
IndsLen(i) == PriorIndsLen(i.q, i.t) + Len(i.tail)
IndAt(i, k) ==
    IF k <= PriorIndsLen(i.q, i.t)
    THEN PriorInd(i.q, i.t, k)
    ELSE i.tail[k - PriorIndsLen(i.q, i.t)]

\* push, for each element of seq in turn
Push(vec, seq) == [vec EXCEPT !.tail = @ \o seq]

\* flush without the dummy index.
flush_unpadded(v, i) ==
    [ draws |-> IF IndsLen(i) # 0
                THEN << [verts |-> v, inds |-> i] >>
                ELSE <<>>,
      verts |-> EmptyVec,
      inds  |-> EmptyVec ]

\* flush without the `if !inds.is_empty()` test: a draw call on every flush.
flush_always_draws(v, i) ==
    LET padded == IF IndsLen(i) % 2 = 1 THEN Push(i, <<0>>) ELSE i
    IN  [ draws |-> << [verts |-> v, inds |-> padded] >>,
          verts |-> EmptyVec,
          inds  |-> EmptyVec ]

\* Batch::flush: one draw call for the accumulated data unless there are no
\* indices, then both vectors are cleared.
flush(v, i) ==
    LET padded == IF IndsLen(i) % 2 = 1 THEN Push(i, <<0>>) ELSE i
    IN  [ draws |-> IF IndsLen(i) # 0
                    THEN << [verts |-> v, inds |-> padded] >>
                    ELSE <<>>,
          verts |-> EmptyVec,
          inds  |-> EmptyVec ]

\* The test of ensure_capacity with `>=` for `>`: a flush one primitive early.
needs_flush_early(v, i, new_verts, new_inds) ==
    \/ VertsLen(v) + new_verts >= MAX_VERTEX_COUNT
    \/ IndsLen(i) + new_inds >= MAX_INDEX_COUNT

\* The test of Batch::ensure_capacity.
needs_flush(v, i, new_verts, new_inds) ==
    \/ VertsLen(v) + new_verts > MAX_VERTEX_COUNT
    \/ IndsLen(i) + new_inds > MAX_INDEX_COUNT

\* Batch::ensure_capacity
ensure_capacity(v, i, new_verts, new_inds) ==
    IF needs_flush(v, i, new_verts, new_inds)
    THEN [flushed |-> TRUE] @@ flush(v, i)
    ELSE [flushed |-> FALSE, draws |-> <<>>, verts |-> v, inds |-> i]

NoAdd == [kind |-> "None", flushed |-> FALSE, verts_before |-> 0,
          inds_before |-> 0, new_verts |-> 0, new_inds |-> 0]

\* Batch::render, with its loop at some item of the input: q Quadrilaterals
\* and t Triangles have been added, which fit without a flush.
BInit ==
    \E q \in PriorQuadrilaterals, t \in PriorTriangles :
        /\ PriorVertsLen(q, t) <= MAX_VERTEX_COUNT
        /\ PriorIndsLen(q, t) <= MAX_INDEX_COUNT
        /\ b_pc = "loop"
        /\ b_left = MaxItems
        /\ verts = [q |-> q, t |-> t, tail |-> <<>>]
        /\ inds = [q |-> q, t |-> t, tail |-> <<>>]
        /\ next_vertex = PriorVertsLen(q, t) + 1
        /\ batch_draws = <<>>
        /\ flush_calls = 0
        /\ last_add = NoAdd

\* No Batch::render call is in progress.
BIdle ==
    /\ b_pc = "done"
    /\ b_left = 0
    /\ verts = EmptyVec
    /\ inds = EmptyVec
    /\ next_vertex = 1
    /\ batch_draws = <<>>
    /\ flush_calls = 0
    /\ last_add = NoAdd

\* Renderable::Empty => {}
RenderEmpty ==
    /\ b_pc = "loop"
    /\ b_left > 0
    /\ b_left' = b_left - 1
    /\ last_add' = NoAdd
    /\ UNCHANGED <<b_pc, verts, inds, next_vertex, batch_draws, flush_calls>>

\* The arm of a primitive of new_verts vertices and new_inds indices.
RenderPrimitive(kind, new_verts, new_inds) ==
    LET r == ensure_capacity(verts, inds, new_verts, new_inds)
        i0 == VertsLen(r.verts) % U16
    IN  /\ b_pc = "loop"
        /\ b_left > 0
        /\ b_left' = b_left - 1
        /\ verts' = Push(r.verts, NewVertices(next_vertex, new_verts))
        /\ inds' = Push(r.inds, IF kind = "Triangle"
                                 THEN TriangleIndices(i0)
                                 ELSE QuadrilateralIndices(i0))
        /\ next_vertex' = next_vertex + new_verts
        /\ batch_draws' = batch_draws \o r.draws
        /\ flush_calls' = flush_calls + (IF r.flushed THEN 1 ELSE 0)
        /\ last_add' = [kind |-> kind,
                        flushed |-> r.flushed,
                        verts_before |-> VertsLen(verts),
                        inds_before |-> IndsLen(inds),
                        new_verts |-> new_verts,
                        new_inds |-> new_inds]
        /\ UNCHANGED b_pc

\* Renderable::Triangle(v0, v1, v2)
RenderTriangle == RenderPrimitive("Triangle", 3, 3)

\* Renderable::Quadrilateral(v0, v1, v2, v3)
RenderQuadrilateral == RenderPrimitive("Quadrilateral", 4, 6)

\* The iterator is exhausted: `self.flush(...)` after the loop.
RenderEnd ==
    LET r == flush(verts, inds)
    IN  /\ b_pc = "loop"
        /\ b_pc' = "done"
        /\ verts' = r.verts
        /\ inds' = r.inds
        /\ batch_draws' = batch_draws \o r.draws
        /\ flush_calls' = flush_calls + 1
        /\ last_add' = NoAdd
        /\ UNCHANGED <<b_left, next_vertex>>

(***************************************************************************)
(* RichText (ui/text.rs)                                                   *)
(***************************************************************************)
\* Option<T>
None == [tag |-> "None"]
Some(v) == [tag |-> "Some", value |-> v]

\* The texts written to a builder with write, as their characters, and those
\* written with write_glued.
Texts == { <<"a", " ", "b">> }
GluedTexts == { <<"c">> }

\* A builder is written to while it holds this many segments and paragraphs.
WritableSizes == {0, 1}

\* The max_width a RichText may be made with.
MaxWidths == {None, Some(2), Some(3)}

\* Font metrics of the one font used, in pixels: the advance width of a
\* glyph, which is also the width of its pixel box, and the height of a line.
AdvanceWidth == 1
GlyphLineHeight == 1

\* char::is_whitespace
is_whitespace(c) == c = " "

\* The glyph has a pixel bounding box.
pixel_bounding_box(c) == ~is_whitespace(c)

should_split_between(left, right) == is_whitespace(left) /\ ~is_whitespace(right)

\* FontEmphasis
FontEmphases == {"Regular", "Bold", "Italic", "BoldItalic"}

\* The characters tried in place of one no font has: U+FFFD, then '?'.
REPLACEMENT_CHARACTER == "FFFD"
QUESTION_MARK == "?"

\* A font asset whose load has ended: a font holding a glyph for each of
\* glyphs, or a failed load.
Font(glyphs) == [status |-> "Loaded", glyphs |-> glyphs]
FailedFont == [status |-> "Failed", glyphs |-> {}]

\* FontFace
FontFace(id, regular, bold, italic, bold_italic) ==
    [id |-> id, regular |-> regular, bold |-> bold, italic |-> italic,
     bold_italic |-> bold_italic]

\* The family set_text is called with where only the text matters: one face
\* of one font that has every character written.
DefaultFamily ==
    << FontFace(1, Font({"a", "b", "c", " "}), None, None, None) >>

\* RichTextStyle::default
DefaultStyle(font_family) ==
    [font_family |-> font_family, size |-> "Text", emphasis |-> "Regular",
     colour |-> "default"]

\* The style of RichTextContentsBuilder::bold
bold_style(style) ==
    [style EXCEPT !.emphasis =
        IF @ \in {"Regular", "Bold"} THEN "Bold" ELSE "BoldItalic"]

\* The style of RichTextContentsBuilder::italic
italic_style(style) ==
    [style EXCEPT !.emphasis =
        IF @ \in {"Regular", "Italic"} THEN "Italic" ELSE "BoldItalic"]

\* The segments write_maybe_glued pushes for chars, its loop being at i with
\* the current word starting at word_start_index (both counted from 1).
RECURSIVE SplitSegments(_, _, _, _, _)
SplitSegments(chars, style, word_start_index, i, glue_to_previous) ==
    IF i > Len(chars)
    THEN << [text |-> SubSeq(chars, word_start_index, Len(chars)),
             style |-> style,
             glue_to_previous |-> glue_to_previous] >>
    ELSE IF should_split_between(chars[i - 1], chars[i])
         THEN << [text |-> SubSeq(chars, word_start_index, i - 1),
                  style |-> style,
                  glue_to_previous |-> glue_to_previous] >>
              \o SplitSegments(chars, style, i, i + 1, FALSE)
         ELSE SplitSegments(chars, style, word_start_index, i + 1,
                            glue_to_previous)

\* RichTextContentsBuilder::write_maybe_glued
write_maybe_glued(self, text, glue_to_previous) ==
    [self EXCEPT !.current_paragraph =
                     @ \o SplitSegments(text, self.style, 1, 2, glue_to_previous)]

\* RichTextContentsBuilder::end_paragraph
end_paragraph(self) ==
    [self EXCEPT !.paragraphs = Append(@, self.current_paragraph),
                 !.current_paragraph = <<>>]

\* The child builder RichTextContentsBuilder::internal hands to `styled`.
internal_child(self, style) ==
    [self EXCEPT !.style = style, !.paragraphs = <<>>,
                 !.current_paragraph = <<>>, !.is_internal = TRUE]

\* The rest of RichTextContentsBuilder::internal: what the child built is
\* appended to the builder, paragraph by paragraph.
RECURSIVE internal_append(_, _, _)
internal_append(self, paragraphs, current_paragraph) ==
    IF paragraphs = <<>>
    THEN [self EXCEPT !.current_paragraph = @ \o current_paragraph]
    ELSE internal_append(
             end_paragraph([self EXCEPT !.current_paragraph =
                                            @ \o Head(paragraphs)]),
             Tail(paragraphs), current_paragraph)

\* One variant of a face answers for c: the asset has loaded and the font
\* has a glyph for c (`glyph.id().0 != 0`).
HasGlyph(font, c) == font.status = "Loaded" /\ c \in font.glyphs

HasVariantGlyph(variant, c) ==
    variant.tag = "Some" /\ HasGlyph(variant.value, c)

\* A font id is written as the specifier it is registered for: get_font_id
\* gives every specifier one id of its own.
FontId(font_face, emphasis, font_size) == <<font_face.id, emphasis, font_size>>

\* get_font_for_character looking through the regular variants before the
\* emphasised ones.
RECURSIVE get_font_for_character_regular_first(_, _, _, _)
get_font_for_character_regular_first(font_family, emphasis, font_size, c) ==
    IF font_family = <<>>
    THEN None
    ELSE LET font_face == Head(font_family)
         IN  IF HasGlyph(font_face.regular, c)
             THEN Some(<<FontId(font_face, "Regular", font_size), c>>)
             ELSE IF /\ emphasis \in {"Bold", "BoldItalic"}
                     /\ HasVariantGlyph(font_face.bold, c)
             THEN Some(<<FontId(font_face, "Bold", font_size), c>>)
             ELSE IF /\ emphasis \in {"Italic", "BoldItalic"}
                     /\ HasVariantGlyph(font_face.italic, c)
             THEN Some(<<FontId(font_face, "Italic", font_size), c>>)
             ELSE IF /\ emphasis = "BoldItalic"
                     /\ HasVariantGlyph(font_face.bold_italic, c)
             THEN Some(<<FontId(font_face, "BoldItalic", font_size), c>>)
             ELSE get_font_for_character_regular_first(
                      Tail(font_family), emphasis, font_size, c)

\* get_font_for_character: the font id and the glyph of c, if any.
RECURSIVE get_font_for_character(_, _, _, _)
get_font_for_character(font_family, emphasis, font_size, c) ==
    IF font_family = <<>>
    THEN None
    ELSE LET font_face == Head(font_family)
         IN  IF /\ emphasis = "BoldItalic"
                /\ HasVariantGlyph(font_face.bold_italic, c)
             THEN Some(<<FontId(font_face, "BoldItalic", font_size), c>>)
             ELSE IF /\ emphasis \in {"Bold", "BoldItalic"}
                     /\ HasVariantGlyph(font_face.bold, c)
             THEN Some(<<FontId(font_face, "Bold", font_size), c>>)
             ELSE IF /\ emphasis \in {"Italic", "BoldItalic"}
                     /\ HasVariantGlyph(font_face.italic, c)
             THEN Some(<<FontId(font_face, "Italic", font_size), c>>)
             ELSE IF HasGlyph(font_face.regular, c)
             THEN Some(<<FontId(font_face, "Regular", font_size), c>>)
             ELSE get_font_for_character(Tail(font_family), emphasis,
                                         font_size, c)

\* The lookups typeset_rich_text_line makes for one character: the
\* character, then U+FFFD, then '?'.
FontAndGlyph(style, c) ==
    LET first == get_font_for_character(style.font_family, style.emphasis,
                                        style.size, c)
        second == IF first = None
                  THEN get_font_for_character(style.font_family,
                           style.emphasis, style.size, REPLACEMENT_CHARACTER)
                  ELSE first
    IN  IF second = None
        THEN get_font_for_character(style.font_family, style.emphasis,
                                    style.size, QUESTION_MARK)
        ELSE second

\* Every segment begins a word.
begins_word_always(seg) == TRUE

\* `!segment.glue_to_previous`: the segment begins a word.
begins_word(seg) == ~seg.glue_to_previous

\* typeset_rich_text_line, its loops being at character char_index of
\* segment segment_index.  There is no kerning.
RECURSIVE LineLoop(_, _, _, _, _)
LineLoop(paragraph, max_width, st, segment_index, char_index) ==
    IF segment_index > Len(paragraph)
    THEN [line |-> st.line \o st.word,
          line_height |-> st.line_height,
          line_width |-> st.caret_x,
          excess |-> <<>>]
    ELSE LET seg == paragraph[segment_index]
             st1 == IF char_index = 1 /\ begins_word(seg)
                    THEN [st EXCEPT !.line = @ \o st.word,
                                    !.word = <<>>,
                                    !.word_start_index = segment_index]
                    ELSE st
         IN  IF char_index > Len(seg.text)
             THEN LineLoop(paragraph, max_width, st1, segment_index + 1, 1)
             ELSE LET font_and_glyph == FontAndGlyph(seg.style,
                                                     seg.text[char_index])
                  IN  IF font_and_glyph = None
                      THEN \* `continue`: the character is not rendered
                           LineLoop(paragraph, max_width, st1, segment_index,
                                    char_index + 1)
                      ELSE LET glyph == [font |-> font_and_glyph.value[1],
                                         colour |-> seg.style.colour,
                                         c |-> font_and_glyph.value[2],
                                         x |-> st1.caret_x,
                                         y |-> 0]
                           IN  IF /\ max_width.tag = "Some"
                                  /\ pixel_bounding_box(glyph.c)
                                  /\ st1.caret_x + AdvanceWidth >= max_width.value
                               THEN [line |-> st1.line,
                                     line_height |-> st1.line_height,
                                     line_width |-> st1.caret_x,
                                     excess |-> SubSeq(paragraph,
                                                       st1.word_start_index,
                                                       Len(paragraph))]
                               ELSE LineLoop(paragraph, max_width,
                                        [st1 EXCEPT
                                            !.caret_x = @ + AdvanceWidth,
                                            !.line_height =
                                                IF GlyphLineHeight > @
                                                THEN GlyphLineHeight ELSE @,
                                            !.word = Append(@, glyph)],
                                        segment_index, char_index + 1)

typeset_rich_text_line(paragraph, max_width) ==
    LineLoop(paragraph, max_width,
             [line |-> <<>>, word |-> <<>>, word_start_index |-> 1,
              caret_x |-> 0, line_height |-> 0],
             1, 1)

\* One round of the `while !segments.is_empty()` loop of typeset_rich_text:
\* the line is typeset and its glyphs are put at the new caret_y.  A line
\* that ends at its first word hands back all of its segments as excess, and
\* the loop then goes round for ever: stalled.
TypesetLineStep(segments, max_width, acc) ==
    LET line_result == typeset_rich_text_line(segments, max_width)
        caret_y == acc.caret_y + line_result.line_height
    IN  IF line_result.excess = segments
        THEN [acc EXCEPT !.stalled = TRUE]
        ELSE [glyphs |-> acc.glyphs \o
                  [k \in 1..Len(line_result.line) |->
                      [line_result.line[k] EXCEPT !.y = caret_y]],
              caret_y |-> caret_y,
              largest_line_width |->
                  IF line_result.line_width > acc.largest_line_width
                  THEN line_result.line_width
                  ELSE acc.largest_line_width,
              stalled |-> FALSE]

\* The `while !segments.is_empty()` loop of typeset_rich_text over one
\* paragraph.
RECURSIVE TypesetSegments(_, _, _)
TypesetSegments(segments, max_width, acc) ==
    IF segments = <<>> \/ acc.stalled
    THEN acc
    ELSE TypesetSegments(typeset_rich_text_line(segments, max_width).excess,
                         max_width,
                         TypesetLineStep(segments, max_width, acc))

\* The `for paragraph in paragraphs` loop of typeset_rich_text.
RECURSIVE TypesetParagraphs(_, _, _)
TypesetParagraphs(paragraphs, max_width, acc) ==
    IF paragraphs = <<>> \/ acc.stalled
    THEN acc
    ELSE TypesetParagraphs(Tail(paragraphs), max_width,
                           TypesetSegments(Head(paragraphs), max_width, acc))

\* The TypesetText typeset_rich_text returns.
TypesetTextOf(acc) ==
    [size |-> <<acc.largest_line_width, acc.caret_y>>,
     glyphs |-> acc.glyphs,
     cached_renderables |-> None,
     cache_generation |-> 0]

EmptyTypesetting ==
    [glyphs |-> <<>>, caret_y |-> 0, largest_line_width |-> 0,
     stalled |-> FALSE]

\* typeset_rich_text: whether it stalls, and the TypesetText it returns when
\* it does not.
typeset_rich_text(paragraphs, max_width) ==
    LET acc == TypesetParagraphs(paragraphs, max_width, EmptyTypesetting)
    IN  [stalled |-> acc.stalled, text |-> TypesetTextOf(acc)]

\* write without the test of the text id.
write_unguarded(self, text_id, paragraphs, typeset) ==
    [self EXCEPT !.paragraphs = paragraphs, !.typeset = Some(typeset)]

\* RichTextContents::write
write(self, text_id, paragraphs, typeset) ==
    IF self.current_text_id = text_id
    THEN [self EXCEPT !.paragraphs = paragraphs, !.typeset = Some(typeset)]
    ELSE self

\* RichText::new(max_width)
RTInit ==
    \E w \in MaxWidths :
        /\ rich_text = [paragraphs |-> <<>>, typeset |-> None,
                        current_text_id |-> 0, max_width |-> w]
        /\ builders = << >>
        /\ tasks = << >>
        /\ commit_log = <<>>

\* No RichText is in use.
RTIdle ==
    /\ rich_text = [paragraphs |-> <<>>, typeset |-> None,
                    current_text_id |-> 0, max_width |-> None]
    /\ builders = << >>
    /\ tasks = << >>
    /\ commit_log = <<>>

\* f without its entry at id.
Without(f, id) == [k \in DOMAIN f \ {id} |-> f[k]]

\* The builder set_text returns.
NewBuilder(font_family, max_width, text_id) ==
    [style |-> DefaultStyle(font_family),
     paragraphs |-> <<>>,
     current_paragraph |-> <<>>,
     max_width |-> max_width,
     is_internal |-> FALSE,
     text_id |-> text_id]

\* RichText::set_text
SetText ==
    /\ rich_text.current_text_id < MaxSetText
    /\ rich_text' = [rich_text EXCEPT !.current_text_id = @ + 1]
    /\ builders' = builders @@
           (rich_text.current_text_id + 1 :>
               NewBuilder(DefaultFamily, rich_text.max_width,
                          rich_text.current_text_id + 1))
    /\ UNCHANGED <<tasks, commit_log>>

\* What a builder holds.
BuilderSize(b) == Len(b.paragraphs) + Len(b.current_paragraph)

\* RichTextContentsBuilder::write
BuilderWrite ==
    \E id \in DOMAIN builders, text \in Texts :
        /\ BuilderSize(builders[id]) \in WritableSizes
        /\ builders' = [builders EXCEPT ![id] = write_maybe_glued(@, text, FALSE)]
        /\ UNCHANGED <<rich_text, tasks, commit_log>>

\* RichTextContentsBuilder::write_glued
BuilderWriteGlued ==
    \E id \in DOMAIN builders, text \in GluedTexts :
        /\ BuilderSize(builders[id]) \in WritableSizes
        /\ builders' = [builders EXCEPT ![id] = write_maybe_glued(@, text, TRUE)]
        /\ UNCHANGED <<rich_text, tasks, commit_log>>

BuilderEndParagraph ==
    \E id \in DOMAIN builders :
        /\ BuilderSize(builders[id]) \in WritableSizes
        /\ builders' = [builders EXCEPT ![id] = end_paragraph(@)]
        /\ UNCHANGED <<rich_text, tasks, commit_log>>

\* The paragraphs RichTextContentsBuilder::finish hands to the task.
FinishedParagraphs(self) ==
    IF self.current_paragraph # <<>>
    THEN Append(self.paragraphs, self.current_paragraph)
    ELSE self.paragraphs

\* RichTextContentsBuilder::finish: the builder is consumed and the task is
\* spawned.
Finish ==
    \E id \in DOMAIN builders :
        LET self == builders[id]
            paragraphs == FinishedParagraphs(self)
        IN  /\ builders' = Without(builders, id)
            /\ tasks' = tasks @@
                   (id :> [pc |-> "typesetting",
                           text_id |-> self.text_id,
                           max_width |-> self.max_width,
                           paragraphs |-> paragraphs,
                           typeset_text |-> None])
            /\ UNCHANGED <<rich_text, commit_log>>

\* The task's `typeset_rich_text(paragraphs_cloned, max_width).await` returns.
TaskTypeset ==
    \E id \in DOMAIN tasks :
        LET r == typeset_rich_text(tasks[id].paragraphs, tasks[id].max_width)
        IN  /\ tasks[id].pc = "typesetting"
            /\ ~r.stalled
            /\ tasks' = [tasks EXCEPT ![id].pc = "typeset",
                                      ![id].typeset_text = Some(r.text)]
            /\ UNCHANGED <<rich_text, builders, commit_log>>

\* The task takes the write lock and calls write; then it ends.
TaskWrite ==
    \E id \in DOMAIN tasks :
        LET task == tasks[id]
        IN  /\ task.pc = "typeset"
            /\ rich_text' = write(rich_text, task.text_id, task.paragraphs,
                                  task.typeset_text.value)
            /\ tasks' = Without(tasks, id)
            /\ commit_log' = Append(commit_log,
                   [text_id |-> task.text_id,
                    current_text_id |-> rich_text.current_text_id,
                    paragraphs |-> task.paragraphs,
                    typeset_text |-> task.typeset_text.value])
            /\ UNCHANGED builders

(***************************************************************************)
(* typeset_rich_text (ui/text.rs), line by line                            *)
(***************************************************************************)
\* The font families the typeset texts are written in.
TypesetFamilies ==
    { DefaultFamily,
      << FontFace(1, Font({"a", " "}), Some(Font({"b"})), Some(Font({"c"})),
                  Some(Font({"c"}))),
         FontFace(2, Font({"a", "b", " ", QUESTION_MARK}), None, None, None) >>,
      << FontFace(1, Font({"a", " ", REPLACEMENT_CHARACTER}), Some(FailedFont),
                  None, None),
         FontFace(2, Font({"c"}), Some(Font({"b"})), None, None) >>,
      << FontFace(1, Font({"a", " "}), None, Some(Font({"b", "c"})), None) >> }

\* The max_width the texts are typeset with.
TypesetWidths == {None, Some(2), Some(3)}

\* The calls made on a builder: write, write_glued, end_paragraph, and
\* bold/italic with a closure that writes (bold around italic for the two).
BuilderCalls ==
    { [call |-> "write", text |-> <<"a", " ", "b">>],
      [call |-> "write", text |-> <<"c">>],
      [call |-> "write_glued", text |-> <<"c">>],
      [call |-> "end_paragraph", text |-> <<>>],
      [call |-> "bold", text |-> <<"b">>],
      [call |-> "italic", text |-> <<"c">>],
      [call |-> "bold_italic", text |-> <<"c">>] }

\* bold(|b| b.write(text)) and the like: internal with the closure's result.
StyledWrite(self, style, text) ==
    LET result == write_maybe_glued(internal_child(self, style), text, FALSE)
    IN  internal_append(self, result.paragraphs, result.current_paragraph)

\* The builder after one call.
BuilderCall(self, call) ==
    CASE call.call = "write" -> write_maybe_glued(self, call.text, FALSE)
      [] call.call = "write_glued" -> write_maybe_glued(self, call.text, TRUE)
      [] call.call = "end_paragraph" -> end_paragraph(self)
      [] call.call = "bold" -> StyledWrite(self, bold_style(self.style), call.text)
      [] call.call = "italic" ->
             StyledWrite(self, italic_style(self.style), call.text)
      [] call.call = "bold_italic" ->
             LET child == internal_child(self, bold_style(self.style))
                 result == StyledWrite(child, italic_style(child.style),
                                       call.text)
             IN  internal_append(self, result.paragraphs,
                                 result.current_paragraph)

\* The builders reached from the builders of a set by at most n calls.
RECURSIVE Built(_, _)
Built(from, n) ==
    IF n = 0
    THEN from
    ELSE Built(from \cup {BuilderCall(b, call) : b \in from, call \in BuilderCalls},
               n - 1)

\* typeset_rich_text is called with the paragraphs of a finished builder.
TSInit ==
    \E font_family \in TypesetFamilies, max_width \in TypesetWidths :
        \E self \in Built({NewBuilder(font_family, max_width, 1)},
                          MaxBuilderCalls) :
            /\ ts_pc = "typesetting"
            /\ ts_paragraphs = FinishedParagraphs(self)
            /\ ts_max_width = max_width
            /\ ts_paragraph = 1
            /\ ts_segments = IF FinishedParagraphs(self) = <<>>
                             THEN <<>>
                             ELSE FinishedParagraphs(self)[1]
            /\ ts_acc = EmptyTypesetting
            /\ ts_lines = <<>>
            /\ ts_result = None

\* typeset_rich_text is not being followed.
TSIdle ==
    /\ ts_pc = "idle"
    /\ ts_paragraphs = <<>>
    /\ ts_max_width = None
    /\ ts_paragraph = 1
    /\ ts_segments = <<>>
    /\ ts_acc = EmptyTypesetting
    /\ ts_lines = <<>>
    /\ ts_result = None

\* One round of the `while !segments.is_empty()` loop.
TypesetLine ==
    LET line_result == typeset_rich_text_line(ts_segments, ts_max_width)
        acc == TypesetLineStep(ts_segments, ts_max_width, ts_acc)
    IN  /\ ts_pc = "typesetting"
        /\ ts_paragraph <= Len(ts_paragraphs)
        /\ ts_segments # <<>>
        /\ ts_lines' = Append(ts_lines,
               [paragraph |-> ts_paragraph,
                segments |-> ts_segments,
                line |-> line_result.line,
                excess |-> line_result.excess])
        /\ ts_acc' = acc
        /\ ts_pc' = IF acc.stalled THEN "stalled" ELSE "typesetting"
        /\ ts_segments' = line_result.excess
        /\ UNCHANGED <<ts_paragraphs, ts_max_width, ts_paragraph, ts_result>>

\* The `for paragraph in paragraphs` loop goes on to the next paragraph.
TypesetNextParagraph ==
    /\ ts_pc = "typesetting"
    /\ ts_paragraph <= Len(ts_paragraphs)
    /\ ts_segments = <<>>
    /\ ts_paragraph' = ts_paragraph + 1
    /\ ts_segments' = IF ts_paragraph + 1 <= Len(ts_paragraphs)
                      THEN ts_paragraphs[ts_paragraph + 1]
                      ELSE <<>>
    /\ UNCHANGED <<ts_pc, ts_paragraphs, ts_max_width, ts_acc, ts_lines,
                   ts_result>>

\* typeset_rich_text returns the TypesetText.
TypesetReturn ==
    /\ ts_pc = "typesetting"
    /\ ts_paragraph > Len(ts_paragraphs)
    /\ ts_pc' = "done"
    /\ ts_result' = Some(TypesetTextOf(ts_acc))
    /\ UNCHANGED <<ts_paragraphs, ts_max_width, ts_paragraph, ts_segments,
                   ts_acc, ts_lines>>

(***************************************************************************)
(* TypesetText.render (ui/text.rs) and the glyph cache                     *)
(***************************************************************************)
\* The TypesetText objects drawn with the one cache.
TextObjects == {1, 2}

\* The paragraphs the drawn texts are typeset from.
RenderedParagraphs ==
    { << SplitSegments(<<"a", " ", "b">>, DefaultStyle(DefaultFamily),
                       1, 2, FALSE) >>,
      << SplitSegments(<<"c">>, DefaultStyle(DefaultFamily), 1, 2, FALSE) >>,
      << SplitSegments(<<"c">>, DefaultStyle(DefaultFamily), 1, 2, FALSE),
         SplitSegments(<<"a", " ", "b">>, DefaultStyle(DefaultFamily),
                       1, 2, FALSE) >> }

\* What cache_queued answers: Ok(CachedBy::Adding), Ok(CachedBy::Reordering)
\* or an Err.
CacheMethods == {"Adding", "Reordering", "Err"}

\* Cache::queue_glyph for each glyph of the text
queue_glyphs(c, glyphs) ==
    [c EXCEPT !.queue = @ \cup {<<glyphs[k].font, glyphs[k].c>> :
                                    k \in 1..Len(glyphs)}]

\* Cache::cache_queued answering Ok(method): the queued glyphs are in the
\* cache and the queue is empty; by Reordering every glyph of the cache has
\* been placed anew, which starts a new packing.
cache_queued(c, method) ==
    [queue |-> {},
     cached |-> c.cached \cup c.queue,
     packing |-> IF method = "Reordering" THEN c.packing + 1 ELSE c.packing]

\* Cache::rect_for: Ok(None) for a glyph without pixels, Err for a glyph
\* that is not in the cache, else the rectangle of the glyph in the packing.
rect_for(c, font, glyph) ==
    IF ~pixel_bounding_box(glyph.c)
    THEN [tag |-> "Ok", value |-> None]
    ELSE IF <<font, glyph.c>> \notin c.cached
         THEN [tag |-> "Err"]
         ELSE [tag |-> "Ok",
               value |-> Some([glyph |-> <<font, glyph.c>>,
                               packing |-> c.packing])]

\* The Quadrilaterals built from the rectangles of the glyphs.
RECURSIVE GlyphItems(_, _)
GlyphItems(c, glyphs) ==
    IF glyphs = <<>>
    THEN <<>>
    ELSE LET g == Head(glyphs)
             r == rect_for(c, g.font, g)
         IN  (IF r.value.tag = "Some"
              THEN << [kind |-> "Quadrilateral",
                       position |-> <<g.x, g.y>>,
                       rect |-> r.value.value] >>
              ELSE <<>>)
             \o GlyphItems(c, Tail(glyphs))

\* Some glyph of the text makes rect_for answer Err.
RectForFails(c, glyphs) ==
    \E k \in 1..Len(glyphs) :
        rect_for(c, glyphs[k].font, glyphs[k]).tag = "Err"

\* The test of the memo without the comparison of generations.
memo_usable_any_generation(self, cache_generation) ==
    self.cached_renderables.tag = "Some"

\* `self.cache_generation == cache_generation &&
\*  self.cached_renderables.is_some()`
memo_usable(self, cache_generation) ==
    /\ self.cache_generation = cache_generation
    /\ self.cached_renderables.tag = "Some"

NoRender == [kind |-> "None"]

\* A TextRenderer with an empty cache, and the texts as typeset.
TRInit ==
    /\ cache = [queue |-> {}, cached |-> {}, packing |-> 0]
    /\ font_texture_loaded \in BOOLEAN
    /\ renderer_generation = 0
    /\ texts \in [TextObjects ->
                    {typeset_rich_text(p, None).text : p \in RenderedParagraphs}]
    /\ last_render = NoRender
    /\ render_panicked = FALSE

\* No text is drawn.
TRIdle ==
    /\ cache = [queue |-> {}, cached |-> {}, packing |-> 0]
    /\ font_texture_loaded = FALSE
    /\ renderer_generation = 0
    /\ texts = << >>
    /\ last_render = NoRender
    /\ render_panicked = FALSE

\* A RichText commits a newly typeset text, which takes the place of the old.
Retypeset ==
    \E t \in TextObjects, p \in RenderedParagraphs :
        /\ ~render_panicked
        /\ texts' = [texts EXCEPT ![t] = typeset_rich_text(p, None).text]
        /\ texts'[t] # texts[t]
        /\ UNCHANGED <<cache, font_texture_loaded, renderer_generation,
                       last_render, render_panicked>>

\* TypesetText::render of text t, called with the generation the
\* TextRenderer holds, which then keeps the generation returned.
Render ==
    \E t \in TextObjects, arrives \in BOOLEAN, method \in CacheMethods :
        LET self == texts[t]
            queued == queue_glyphs(cache, self.glyphs)
            isLoaded == if_loaded("font_texture",
                                  IF font_texture_loaded
                                  THEN {"font_texture"} ELSE {},
                                  arrives)
            cached == IF isLoaded THEN cache_queued(queued, method) ELSE queued
            cache_generation ==
                IF isLoaded /\ method = "Reordering"
                THEN renderer_generation + 1
                ELSE renderer_generation
            reuse == memo_usable(self, cache_generation)
            items == IF reuse
                     THEN self.cached_renderables.value
                     ELSE GlyphItems(cached, self.glyphs)
        IN  /\ ~render_panicked
            /\ method = "Reordering" => cache.packing < MaxReorderings
            /\ font_texture_loaded' = isLoaded
            /\ IF isLoaded /\ method = "Err"
               THEN \* `.unwrap()` of cache_queued's answer
                    /\ render_panicked' = TRUE
                    /\ cache' = queued
                    /\ last_render' = [kind |-> "Panic", text |-> t]
                    /\ UNCHANGED <<texts, renderer_generation>>
               ELSE IF ~reuse /\ RectForFails(cached, self.glyphs)
               THEN \* `.expect("Could not load cache entry for glyph")`
                    /\ render_panicked' = TRUE
                    /\ cache' = cached
                    /\ last_render' = [kind |-> "Panic", text |-> t]
                    /\ UNCHANGED <<texts, renderer_generation>>
               ELSE /\ render_panicked' = FALSE
                    /\ cache' = cached
                    /\ texts' = IF reuse
                                THEN texts
                                ELSE [texts EXCEPT
                                         ![t].cache_generation = cache_generation,
                                         ![t].cached_renderables = Some(items)]
                    /\ renderer_generation' = cache_generation
                    /\ last_render' =
                           [kind |-> "Drawn",
                            text |-> t,
                            reused |-> reuse,
                            had_memo |-> self.cached_renderables.tag = "Some",
                            memo_generation |-> self.cache_generation,
                            generation_before |-> renderer_generation,
                            cache_generation |-> cache_generation,
                            memo_after |-> texts'[t].cached_renderables,
                            memo_generation_after |-> texts'[t].cache_generation,
                            packing |-> cached.packing,
                            items |-> items]

(***************************************************************************)
(* NinePatch.generate_render_info                                          *)
(*                                                                         *)
(* Positions and margins are whole pixels. A texture coordinate is the     *)
(* fraction the code divides out, kept as numerator and denominator (the   *)
(* code computes it in f32).                                               *)
(***************************************************************************)
\* The texture regions: a frame of the atlas and the size of the atlas.
AtlasRegions ==
    { [frame |-> [x |-> 0, y |-> 0, w |-> 4, h |-> 4],
       partitioned_texture_size |-> <<4, 4>>],
      [frame |-> [x |-> 2, y |-> 1, w |-> 3, h |-> 3],
       partitioned_texture_size |-> <<8, 4>>] }

Margins == 0..MaxMargin

\* The corners and extents generate_render_info is called with.
Corners == {0, 1}
Extents == 0..MaxExtent

Fraction(num, den) == [num |-> num, den |-> den]

u_positions_unframed(frame, left_margin, right_margin, tex_w) ==
    << Fraction(0, tex_w),
       Fraction(left_margin, tex_w),
       Fraction(tex_w - right_margin, tex_w),
       Fraction(tex_w, tex_w) >>

u_positions(frame, left_margin, right_margin, tex_w) ==
    << Fraction(frame.x, tex_w),
       Fraction(frame.x + left_margin, tex_w),
       Fraction(frame.x + frame.w - right_margin, tex_w),
       Fraction(frame.x + frame.w, tex_w) >>

v_positions(frame, bottom_margin, top_margin, tex_h) ==
    << Fraction(frame.y, tex_h),
       Fraction(frame.y + bottom_margin, tex_h),
       Fraction(frame.y + frame.h - top_margin, tex_h),
       Fraction(frame.y + frame.h, tex_h) >>

x_positions(self, x, width) ==
    << x, x + self.left_margin, x + width - self.right_margin, x + width >>

y_positions(self, y, height) ==
    << y, y + self.bottom_margin, y + height - self.top_margin, y + height >>

\* The order the nine (i, j) are mapped in (0-based, as in the code).
GridCells ==
    << <<0, 0>>, <<0, 1>>, <<0, 2>>,
       <<1, 0>>, <<1, 1>>, <<1, 2>>,
       <<2, 0>>, <<2, 1>>, <<2, 2>> >>

NinePatchVertex(xs, ys, us, vs, i, j, color) ==
    [position |-> <<xs[i + 1], ys[j + 1], 0>>,
     color |-> color,
     tex_coords |-> <<us[i + 1], vs[j + 1]>>]

generate_render_info(self, colour, x, y, width, height) ==
    IF self.texture_region.info = None
    THEN [kind |-> "Nothing"]
    ELSE LET tex == self.texture_region.info.value
             frame == tex.frame
             tex_w == tex.partitioned_texture_size[1]
             tex_h == tex.partitioned_texture_size[2]
             us == u_positions(frame, self.left_margin, self.right_margin,
                               tex_w)
             vs == v_positions(frame, self.bottom_margin, self.top_margin,
                               tex_h)
             xs == x_positions(self, x, width)
             ys == y_positions(self, y, height)
         IN  [kind |-> "ImageRegion",
              texture |-> self.texture_region.name,
              renderables |->
                  [q \in 1..Len(GridCells) |->
                      LET i == GridCells[q][1]
                          j == GridCells[q][2]
                      IN  << NinePatchVertex(xs, ys, us, vs, i, j, colour),
                             NinePatchVertex(xs, ys, us, vs, i + 1, j, colour),
                             NinePatchVertex(xs, ys, us, vs, i + 1, j + 1,
                                             colour),
                             NinePatchVertex(xs, ys, us, vs, i, j + 1,
                                             colour) >>]]

\* A NinePatch over a region of a partitioned texture that has not been
\* loaded yet: TextureRegion::new leaves info at None until on_load runs.
NPInit ==
    /\ np_patch \in
           [texture_region : [name : {"region"},
                              in_atlas : AtlasRegions,
                              info : {None}],
            left_margin : Margins,
            right_margin : Margins,
            top_margin : Margins,
            bottom_margin : Margins]
    /\ np_result = None

NPIdle ==
    /\ np_patch = None
    /\ np_result = None

\* The on_load callback of TextureRegion::new: the frame is looked up and
\* stored with the size of the base texture.
RegionLoaded ==
    /\ np_patch # None
    /\ np_patch.texture_region.info = None
    /\ np_patch' = [np_patch EXCEPT !.texture_region.info =
                        Some(np_patch.texture_region.in_atlas)]
    /\ UNCHANGED np_result

\* One call of generate_render_info; the caller takes the MultiRenderable
\* before it calls again.
GenerateRenderInfo ==
    /\ np_patch # None
    /\ np_result = None
    /\ \E x \in Corners, y \in Corners, width \in Extents, height \in Extents :
           np_result' = Some([x |-> x, y |-> y,
                              width |-> width, height |-> height,
                              info |-> generate_render_info(
                                           np_patch, "WHITE", x, y,
                                           width, height)])
    /\ UNCHANGED np_patch

\* The caller hands the MultiRenderable on to the renderer.
TakeRenderInfo ==
    /\ np_result # None
    /\ np_result' = None
    /\ UNCHANGED np_patch

(***************************************************************************)
(* get_font_id                                                             *)
(*                                                                         *)
(* Tasks call get_font_id concurrently. A call takes the write lock of     *)
(* FONT_ID_MAP, then that of FONT_ID_TO_FONT_MAP, looks its specifier up,  *)
(* inserts a new id if there is none, and releases both locks when it      *)
(* returns. typeset_rich_text_line reads FONT_ID_TO_FONT_MAP under its     *)
(* read lock.                                                              *)
(***************************************************************************)
FontIdTasks == 1..MaxFontIdTasks

\* FontIdSpecifier: font_face_id, emphasis, font_size.
FontIdSpecifiers ==
    [font_face_id : {1, 2}, emphasis : {"Regular", "Bold"},
     font_size : {"Text"}]

EmptyMap == [k \in {} |-> None]

Insert(map, key, value) ==
    [k \in DOMAIN map \cup {key} |-> IF k = key THEN value ELSE map[k]]

\* The asset get_font_id stores: the variant of the face for the emphasis.
VariantAsset(specifier) == <<specifier.font_face_id, specifier.emphasis>>

write_lock_free_always(lock) == TRUE

\* tokio's RwLock::write completes when nobody holds the lock.
write_lock_free(lock) == lock.writer = None /\ lock.readers = 0

read_lock_free(lock) == lock.writer = None

Unlocked == [writer |-> None, readers |-> 0]

IdleTask == [pc |-> "idle", specifier |-> None, id |-> None]

\* The statics before the first call.
FIInit ==
    /\ FONT_ID_MAP = EmptyMap
    /\ FONT_ID_TO_FONT_MAP = EmptyMap
    /\ FONT_ID_COUNTER = 1
    /\ fi_locks = [font_id_map |-> Unlocked, font_id_to_font_map |-> Unlocked]
    /\ fi_tasks = [t \in FontIdTasks |-> IdleTask]
    /\ fi_inserts = <<>>
    /\ fi_returns = {}

\* A task calls get_font_id and waits for FONT_ID_MAP.write().
CallGetFontId ==
    \E t \in FontIdTasks, specifier \in FontIdSpecifiers :
        /\ fi_tasks[t].pc = "idle"
        /\ FONT_ID_COUNTER <= MaxFontIds
        /\ fi_tasks' = [fi_tasks EXCEPT ![t] =
                            [pc |-> "lock_font_id_map",
                             specifier |-> Some(specifier), id |-> None]]
        /\ UNCHANGED <<FONT_ID_MAP, FONT_ID_TO_FONT_MAP, FONT_ID_COUNTER,
                       fi_locks, fi_inserts, fi_returns>>

\* FONT_ID_MAP.write().await
LockFontIdMap ==
    \E t \in FontIdTasks :
        /\ fi_tasks[t].pc = "lock_font_id_map"
        /\ write_lock_free(fi_locks.font_id_map)
        /\ fi_locks' = [fi_locks EXCEPT !.font_id_map.writer = Some(t)]
        /\ fi_tasks' = [fi_tasks EXCEPT ![t].pc = "lock_font_id_to_font_map"]
        /\ UNCHANGED <<FONT_ID_MAP, FONT_ID_TO_FONT_MAP, FONT_ID_COUNTER,
                       fi_inserts, fi_returns>>

\* FONT_ID_TO_FONT_MAP.write().await
LockFontIdToFontMap ==
    \E t \in FontIdTasks :
        /\ fi_tasks[t].pc = "lock_font_id_to_font_map"
        /\ write_lock_free(fi_locks.font_id_to_font_map)
        /\ fi_locks' = [fi_locks EXCEPT !.font_id_to_font_map.writer = Some(t)]
        /\ fi_tasks' = [fi_tasks EXCEPT ![t].pc = "entry"]
        /\ UNCHANGED <<FONT_ID_MAP, FONT_ID_TO_FONT_MAP, FONT_ID_COUNTER,
                       fi_inserts, fi_returns>>

\* font_id_map.entry(specifier): occupied, and the id there is the result,
\* or vacant, and or_insert_with runs its closure.
Entry ==
    \E t \in FontIdTasks :
        /\ fi_tasks[t].pc = "entry"
        /\ LET specifier == fi_tasks[t].specifier.value
           IN  fi_tasks' = [fi_tasks EXCEPT ![t] =
                   IF specifier \in DOMAIN FONT_ID_MAP
                   THEN [@ EXCEPT !.pc = "return",
                                  !.id = Some(FONT_ID_MAP[specifier])]
                   ELSE [@ EXCEPT !.pc = "or_insert_with"]]
        /\ UNCHANGED <<FONT_ID_MAP, FONT_ID_TO_FONT_MAP, FONT_ID_COUNTER,
                       fi_locks, fi_inserts, fi_returns>>

\* The closure of or_insert_with: fetch_add on the counter, the insert into
\* FONT_ID_TO_FONT_MAP, and the id put into the vacant entry.
OrInsertWith ==
    \E t \in FontIdTasks :
        /\ fi_tasks[t].pc = "or_insert_with"
        /\ LET specifier == fi_tasks[t].specifier.value
               id == FONT_ID_COUNTER
           IN  /\ FONT_ID_COUNTER' = FONT_ID_COUNTER + 1
               /\ FONT_ID_TO_FONT_MAP' =
                      Insert(FONT_ID_TO_FONT_MAP, id, VariantAsset(specifier))
               /\ FONT_ID_MAP' = Insert(FONT_ID_MAP, specifier, id)
               /\ fi_inserts' = Append(fi_inserts, id)
               /\ fi_tasks' = [fi_tasks EXCEPT ![t].pc = "return",
                                               ![t].id = Some(id)]
        /\ UNCHANGED <<fi_locks, fi_returns>>

\* get_font_id returns: both guards are dropped.
ReturnFontId ==
    \E t \in FontIdTasks :
        /\ fi_tasks[t].pc = "return"
        /\ fi_returns' = fi_returns \cup
               {<<fi_tasks[t].specifier.value, fi_tasks[t].id.value>>}
        /\ fi_locks' = [font_id_map |->
                            [fi_locks.font_id_map EXCEPT !.writer = None],
                        font_id_to_font_map |->
                            [fi_locks.font_id_to_font_map EXCEPT
                                 !.writer = None]]
        /\ fi_tasks' = [fi_tasks EXCEPT ![t] = IdleTask]
        /\ UNCHANGED <<FONT_ID_MAP, FONT_ID_TO_FONT_MAP, FONT_ID_COUNTER,
                       fi_inserts>>

\* typeset_rich_text_line: FONT_ID_TO_FONT_MAP.read().await for the kerning.
ReadFontIdToFontMap ==
    /\ read_lock_free(fi_locks.font_id_to_font_map)
    /\ fi_locks.font_id_to_font_map.readers < MaxFontMapReaders
    /\ fi_locks' = [fi_locks EXCEPT !.font_id_to_font_map.readers = @ + 1]
    /\ UNCHANGED <<FONT_ID_MAP, FONT_ID_TO_FONT_MAP, FONT_ID_COUNTER,
                   fi_tasks, fi_inserts, fi_returns>>

\* The read guard is dropped.
ReadFontIdToFontMapDone ==
    /\ fi_locks.font_id_to_font_map.readers > 0
    /\ fi_locks' = [fi_locks EXCEPT !.font_id_to_font_map.readers = @ - 1]
    /\ UNCHANGED <<FONT_ID_MAP, FONT_ID_TO_FONT_MAP, FONT_ID_COUNTER,
                   fi_tasks, fi_inserts, fi_returns>>

(***************************************************************************)
(* Widget and UI                                                           *)
(*                                                                         *)
(* A widget is named by a number; widgets[w] is its WidgetContents, None   *)
(* before Widget::new made it. A Weak<AtomicBool> is None (Weak::new()) or *)
(* the UI whose flag it points to; it upgrades while that UI is alive.     *)
(* Widgets form trees: a widget is put under one parent at a time.         *)
(***************************************************************************)
WidgetIds == {1, 2, 3}
UIIds == {1, 2}

\* Size<Number> of a UI.
UISizes == {100, 200}
\* The elements: () and a RichText; the sizes a typeset text can have.
ElementKinds == {"unit", "text"}
TextSizes == {0, 1}
BackgroundCounts == {0, 1}

\* stretch's Dimension, in both directions alike.
Auto == [dimension |-> "Auto"]
Points(n) == [dimension |-> "Points", points |-> n]

\* The element a widget is made with and what its get_size gives: a text is
\* not typeset yet.
NewElement(kind) ==
    [kind |-> kind, size |-> IF kind = "text" THEN Points(0) ELSE Auto]

\* Widget::new
Widget_new(element, children, backgrounds) ==
    [element |-> element,
     children |-> children,
     backgrounds |-> backgrounds,
     layout |-> None,
     force_layout_signal |-> None]

\* The UI that UI::new returns.
UI_new(root, size) ==
    [root |-> root, size |-> size, force_layout |-> TRUE, alive |-> TRUE]

Made(ws) == {w \in WidgetIds : ws[w] # None}

RECURSIVE Descendants(_, _)
\* The widget and everything under it.
Descendants(ws, w) ==
    {w} \cup UNION {Descendants(ws, ws[w].children[i]) :
                        i \in 1..Len(ws[w].children)}

HasParent(ws, w) ==
    \E p \in Made(ws) : \E i \in 1..Len(ws[p].children) : ws[p].children[i] = w

IsRoot(us, w) == \E u \in UIIds : us[u] # None /\ us[u].alive /\ us[u].root = w

\* Widgets that are neither under a parent nor the root of a live UI.
Detached(ws, us) == {w \in Made(ws) : ~HasParent(ws, w) /\ ~IsRoot(us, w)}

\* Weak::upgrade: the UI whose flag the handle reaches, if it is alive.
upgrade(us, signal) ==
    IF signal # None /\ us[signal.value] # None /\ us[signal.value].alive
    THEN signal
    ELSE None

\* WidgetContents::force_layout
force_layout(us, signal) ==
    IF upgrade(us, signal) # None
    THEN [us EXCEPT ![signal.value].force_layout = TRUE]
    ELSE us

update_force_layout_signal_shallow(ws, w, signal) ==
    [ws EXCEPT ![w].force_layout_signal = signal]

\* Widget::update_force_layout_signal: the children first, then the widget.
update_force_layout_signal(ws, w, signal) ==
    [x \in WidgetIds |->
        IF x \in Descendants(ws, w)
        THEN [ws[x] EXCEPT !.force_layout_signal = signal]
        ELSE ws[x]]

\* Stretch::compute_layout, as far as it is used here: the layout of a node
\* is determined by the space available, the node's own size, the number of
\* its children, and its place among its siblings.
compute_layout(size, style, children, index) ==
    [available |-> size, size |-> style.size, children |-> children,
     index |-> index]

\* WidgetContents::get_style: the size is asked of the element every time.
get_style(contents) == [size |-> contents.element.size]

RECURSIVE generate_styles(_, _)
\* Widget::generate_styles
generate_styles(ws, w) ==
    [widget |-> w,
     style |-> get_style(ws[w]),
     children |-> [i \in 1..Len(ws[w].children) |->
                      generate_styles(ws, ws[w].children[i])]]

RECURSIVE Flatten(_)
Flatten(seqs) ==
    IF seqs = <<>> THEN <<>> ELSE Head(seqs) \o Flatten(Tail(seqs))

RECURSIVE generate_nodes(_, _, _)
\* generate_nodes and the layouts read back from the solver: the nodes of
\* the children, then the node of the widget itself.
generate_nodes(widget_style, size, index) ==
    Flatten([i \in 1..Len(widget_style.children) |->
                generate_nodes(widget_style.children[i], size, i)])
    \o << [widget |-> widget_style.widget,
           layout |-> compute_layout(size, widget_style.style,
                                     Len(widget_style.children), index)] >>

layout_root_only(ws, root, size) ==
    [ws EXCEPT ![root].layout =
        Some(compute_layout(size, get_style(ws[root]),
                            Len(ws[root].children), 1))]

layout_skipped(ws, root, size) == ws

\* UI::layout: every widget of the tree gets the layout of its node.
layout(ws, root, size) ==
    LET layouts == generate_nodes(generate_styles(ws, root), size, 1)
    IN  [w \in WidgetIds |->
            IF \E k \in 1..Len(layouts) : layouts[k].widget = w
            THEN [ws[w] EXCEPT !.layout =
                     Some(layouts[CHOOSE k \in 1..Len(layouts) :
                                      /\ layouts[k].widget = w
                                      /\ \A j \in 1..Len(layouts) :
                                             layouts[j].widget = w => j <= k]
                              .layout)]
            ELSE ws[w]]

RECURSIVE widget_generate_render_info(_, _)
\* Widget::generate_render_info (without the debug lines)
widget_generate_render_info(ws, w) ==
    IF ws[w].layout # None
    THEN LET renderable ==
                 [kind |-> "Adjacent",
                  widget |-> w,
                  element |-> [layout |-> ws[w].layout.value,
                               size |-> ws[w].element.size],
                  items |-> [i \in 1..Len(ws[w].children) |->
                                widget_generate_render_info(
                                    ws, ws[w].children[i])]]
         IN  IF ws[w].backgrounds = 0
             THEN renderable
             ELSE [kind |-> "Layered",
                   backgrounds |-> [i \in 1..ws[w].backgrounds |->
                                       ws[w].layout.value],
                   top |-> renderable]
    ELSE [kind |-> "Nothing", widget |-> w]

NoMutation == [kind |-> "none"]
NoForce == [widget |-> 0]

\* The children of widgets 1, 2 and 3 in the trees a UI is made over; the
\* root is widget 1 and a widget under no parent is left over for add_child.
TreeShapes ==
    { << <<2, 3>>, <<>>, <<>> >>,
      << <<2>>, <<3>>, <<>> >>,
      << <<2>>, <<>>, <<>> >>,
      << <<>>, <<3>>, <<>> >> }

\* A UI has been made over a tree by Widget::new and UI::new: a container,
\* a widget with a background, and a text.
UIBuiltInit ==
    /\ \E shape \in TreeShapes, backgrounds \in BackgroundCounts :
           widgets = update_force_layout_signal(
                         << Widget_new(NewElement("unit"), shape[1], 0),
                            Widget_new(NewElement("unit"), shape[2], 1),
                            Widget_new(NewElement("text"), shape[3],
                                       backgrounds) >>,
                         1, Some(1))
    /\ \E size \in UISizes :
           uis = [u \in UIIds |-> IF u = 1 THEN UI_new(1, size) ELSE None]
    /\ ui_pc = [u \in UIIds |-> "idle"]
    /\ ui_render = [u \in UIIds |-> None]
    /\ ui_mutated = [u \in UIIds |-> FALSE]
    /\ last_mutation = NoMutation
    /\ last_force = NoForce

\* Nothing has been made yet.
UIInit ==
    /\ widgets = [w \in WidgetIds |-> None]
    /\ uis = [u \in UIIds |-> None]
    /\ ui_pc = [u \in UIIds |-> "idle"]
    /\ ui_render = [u \in UIIds |-> None]
    /\ ui_mutated = [u \in UIIds |-> FALSE]
    /\ last_mutation = NoMutation
    /\ last_force = NoForce

UIIdle ==
    /\ widgets = <<>>
    /\ uis = <<>>
    /\ ui_pc = <<>>
    /\ ui_render = <<>>
    /\ ui_mutated = <<>>
    /\ last_mutation = NoMutation
    /\ last_force = NoForce

\* The UI whose tree the widget is in, if any.
UIOf(ws, us, w) ==
    IF \E u \in UIIds : us[u] # None /\ us[u].alive
                        /\ w \in Descendants(ws, us[u].root)
    THEN Some(CHOOSE u \in UIIds : us[u] # None /\ us[u].alive
                                   /\ w \in Descendants(ws, us[u].root))
    ELSE None

\* What a change did: its kind, the UI of the widget changed, and whether
\* the change stored true in a flag.
Mutation(kind, ui, stored) == [kind |-> kind, ui |-> ui, stored |-> stored]

\* ui_render, last_mutation and last_force tell of the step just taken:
\* a step that is not a return, a change or a call of force_layout leaves
\* nothing in them.
Forget ==
    /\ ui_render' = [u \in UIIds |-> None]
    /\ last_mutation' = NoMutation
    /\ last_force' = NoForce

\* Widget::new with children that are not under a parent yet: a text, or a
\* container with or without a background.
NewWidget ==
    \E w \in WidgetIds, kind \in ElementKinds,
       backgrounds \in BackgroundCounts :
        /\ widgets[w] = None
        /\ \A x \in WidgetIds : x < w => widgets[x] # None
        /\ kind = "text" => backgrounds = 0
        /\ \E children \in {<<>>} \cup {<<c>> : c \in Detached(widgets, uis)} :
               /\ kind = "text" => children = <<>>
               /\ widgets' = [widgets EXCEPT ![w] =
                                 Widget_new(NewElement(kind), children,
                                            backgrounds)]
        /\ Forget
        /\ UNCHANGED <<uis, ui_pc, ui_mutated>>

\* UI::new
NewUI ==
    \E u \in UIIds, root \in Detached(widgets, uis), size \in UISizes :
        /\ uis[u] = None
        /\ \A x \in UIIds : x < u => uis[x] # None
        /\ uis' = [uis EXCEPT ![u] = UI_new(root, size)]
        /\ widgets' = update_force_layout_signal(widgets, root, Some(u))
        /\ Forget
        /\ UNCHANGED <<ui_pc, ui_mutated>>

\* The UI is dropped: its flag goes with it, its widgets stay.
DropUI ==
    \E u \in UIIds :
        /\ uis[u] # None /\ uis[u].alive
        /\ ui_pc[u] = "idle"
        /\ uis' = [uis EXCEPT ![u].alive = FALSE]
        /\ Forget
        /\ UNCHANGED <<widgets, ui_pc, ui_mutated>>

\* WidgetContents::add_child
AddChild ==
    \E p \in Made(widgets), w \in Detached(widgets, uis) :
        /\ p \notin Descendants(widgets, w)
        /\ LET signal == widgets[p].force_layout_signal
               pushed == [update_force_layout_signal(widgets, w, signal)
                              EXCEPT ![p].children = Append(@, w)]
           IN  /\ widgets' = pushed
               /\ uis' = force_layout(uis, signal)
               /\ last_mutation' =
                      Mutation("add_child", UIOf(widgets, uis, p),
                               upgrade(uis, signal))
        /\ ui_mutated' = [u \in UIIds |-> TRUE]
        /\ ui_render' = [x \in UIIds |-> None]
        /\ last_force' = NoForce
        /\ UNCHANGED ui_pc

\* WidgetContents::clear_children
ClearChildren ==
    \E p \in Made(widgets) :
        /\ widgets[p].children # <<>>
        /\ widgets' = [widgets EXCEPT ![p].children = <<>>]
        /\ uis' = force_layout(uis, widgets[p].force_layout_signal)
        /\ last_mutation' =
               Mutation("clear_children", UIOf(widgets, uis, p),
                        upgrade(uis, widgets[p].force_layout_signal))
        /\ ui_mutated' = [u \in UIIds |-> TRUE]
        /\ ui_render' = [x \in UIIds |-> None]
        /\ last_force' = NoForce
        /\ UNCHANGED ui_pc

\* UI::update_size; it borrows the UI mutably, so no generate_render_info of
\* that UI is under way.
UpdateSize ==
    \E u \in UIIds, size \in UISizes :
        /\ uis[u] # None /\ uis[u].alive
        /\ ui_pc[u] = "idle"
        /\ size # uis[u].size
        /\ uis' = [uis EXCEPT ![u].size = size, ![u].force_layout = TRUE]
        /\ last_mutation' = Mutation("update_size", Some(u), Some(u))
        /\ ui_mutated' = [ui_mutated EXCEPT ![u] = TRUE]
        /\ ui_render' = [x \in UIIds |-> None]
        /\ last_force' = NoForce
        /\ UNCHANGED <<widgets, ui_pc>>

\* RichTextContents::write commits a typeset text of another size for the
\* element of a widget shown in a UI; it runs on a background task.
CommitTypeset ==
    \E w \in Made(widgets), size \in TextSizes :
        /\ UIOf(widgets, uis, w) # None
        /\ widgets[w].element.kind = "text"
        /\ Points(size) # widgets[w].element.size
        /\ widgets' = [widgets EXCEPT ![w].element.size = Points(size)]
        /\ last_mutation' = Mutation("typeset", UIOf(widgets, uis, w), None)
        /\ ui_mutated' = [u \in UIIds |-> TRUE]
        /\ ui_render' = [x \in UIIds |-> None]
        /\ last_force' = NoForce
        /\ UNCHANGED <<uis, ui_pc>>

\* A call of WidgetContents::force_layout from outside.
ForceLayout ==
    \E w \in Made(widgets) :
        /\ uis' = force_layout(uis, widgets[w].force_layout_signal)
        /\ last_force' = [widget |-> w,
                          ui |-> UIOf(widgets, uis, w),
                          stored |-> upgrade(uis, widgets[w].force_layout_signal)]
        /\ ui_render' = [x \in UIIds |-> None]
        /\ last_mutation' = NoMutation
        /\ UNCHANGED <<widgets, ui_pc, ui_mutated>>

\* UI::generate_render_info, first half: self.layout(self.size).
UILayout ==
    \E u \in UIIds :
        /\ uis[u] # None /\ uis[u].alive
        /\ ui_pc[u] = "idle"
        /\ widgets' = layout(widgets, uis[u].root, uis[u].size)
        /\ ui_pc' = [ui_pc EXCEPT ![u] = "laid_out"]
        /\ ui_mutated' = [ui_mutated EXCEPT ![u] = FALSE]
        /\ Forget
        /\ UNCHANGED uis

\* UI::generate_render_info, second half: self.root.generate_render_info.
UIRender ==
    \E u \in UIIds :
        /\ ui_pc[u] = "laid_out"
        /\ ui_render' = [x \in UIIds |->
               IF x # u THEN None ELSE
               Some([info |-> widget_generate_render_info(widgets, uis[u].root),
                     size |-> uis[u].size,
                     during_call |-> ui_mutated[u]])]
        /\ ui_pc' = [ui_pc EXCEPT ![u] = "idle"]
        /\ last_mutation' = NoMutation
        /\ last_force' = NoForce
        /\ UNCHANGED <<widgets, uis, ui_mutated>>

(***************************************************************************)
(* Button (ui/button.rs)                                                   *)
(***************************************************************************)
\* enum ButtonState
ButtonStates == {"Released", "Hovered", "Pressed", "PressedNotHovered"}
\* winit's MouseButton (Left and one other) and ElementState
MouseButtons == {"Left", "Right"}
ElementStates == {"Pressed", "Released"}
\* The calls of on_click counted before the count stops growing.
MaxClicks == 2

NoEvent == [button |-> "None", state |-> "None"]
NoInput == [button |-> "None", state |-> "None", before |-> "None",
            disabled |-> FALSE, flag_at_return |-> FALSE,
            on_click |-> FALSE, handled |-> FALSE]

\* process_mouse_input calling on_click whatever the flag.
process_mouse_input_undisableable(self_state, disabled, button, state) ==
    IF button = "Left"
    THEN IF state = "Pressed"
         THEN IF self_state = "Hovered"
              THEN [state |-> "Pressed", on_click |-> FALSE, handled |-> TRUE]
              ELSE [state |-> self_state, on_click |-> FALSE,
                    handled |-> FALSE]
         ELSE IF self_state = "Pressed"
              THEN [state |-> "Hovered", on_click |-> TRUE, handled |-> TRUE]
              ELSE IF self_state = "PressedNotHovered"
                   THEN [state |-> "Released", on_click |-> FALSE,
                         handled |-> FALSE]
                   ELSE [state |-> self_state, on_click |-> FALSE,
                         handled |-> FALSE]
    ELSE [state |-> self_state, on_click |-> FALSE, handled |-> FALSE]

\* process_mouse_input treating a release outside the button as a click.
process_mouse_input_click_outside(self_state, disabled, button, state) ==
    IF button = "Left"
    THEN IF state = "Pressed"
         THEN IF self_state = "Hovered"
              THEN [state |-> IF ~disabled THEN "Pressed" ELSE self_state,
                    on_click |-> FALSE, handled |-> TRUE]
              ELSE [state |-> self_state, on_click |-> FALSE,
                    handled |-> FALSE]
         ELSE IF self_state = "Pressed"
              THEN [state |-> "Hovered", on_click |-> ~disabled,
                    handled |-> TRUE]
              ELSE IF self_state = "PressedNotHovered"
                   THEN [state |-> "Released", on_click |-> ~disabled,
                         handled |-> TRUE]
                   ELSE [state |-> self_state, on_click |-> FALSE,
                         handled |-> FALSE]
    ELSE [state |-> self_state, on_click |-> FALSE, handled |-> FALSE]

\* Button::process_mouse_input after its load of the flag: the new state,
\* whether on_click is called, and the returned bool.
process_mouse_input(self_state, disabled, button, state) ==
    IF button = "Left"
    THEN IF state = "Pressed"
         THEN IF self_state = "Hovered"
              THEN [state |-> IF ~disabled THEN "Pressed" ELSE self_state,
                    on_click |-> FALSE, handled |-> TRUE]
              ELSE [state |-> self_state, on_click |-> FALSE,
                    handled |-> FALSE]
         ELSE IF self_state = "Pressed"
              THEN [state |-> "Hovered", on_click |-> ~disabled,
                    handled |-> TRUE]
              ELSE IF self_state = "PressedNotHovered"
                   THEN [state |-> "Released", on_click |-> FALSE,
                         handled |-> FALSE]
                   ELSE [state |-> self_state, on_click |-> FALSE,
                         handled |-> FALSE]
    ELSE [state |-> self_state, on_click |-> FALSE, handled |-> FALSE]

\* Button::mouse_enter
mouse_enter(self_state) ==
    IF self_state = "Released" THEN "Hovered"
    ELSE IF self_state = "PressedNotHovered" THEN "Pressed"
    ELSE self_state

\* Button::mouse_leave
mouse_leave(self_state) ==
    IF self_state = "Hovered" THEN "Released"
    ELSE IF self_state = "Pressed" THEN "PressedNotHovered"
    ELSE self_state

\* Button::new_disableable: the flag is the caller's, with whatever value it
\* holds (Button::new makes a fresh flag holding false).
BtnInit ==
    /\ btn_state = "Released"
    /\ btn_disabled \in BOOLEAN
    /\ btn_pc = "idle"
    /\ btn_event = NoEvent
    /\ btn_loaded = FALSE
    /\ btn_clicks = 0
    /\ btn_last = NoInput

\* No button is in use.
BtnIdle ==
    /\ btn_state = "Released"
    /\ btn_disabled = FALSE
    /\ btn_pc = "idle"
    /\ btn_event = NoEvent
    /\ btn_loaded = FALSE
    /\ btn_clicks = 0
    /\ btn_last = NoInput

\* mouse_enter(&mut self)
MouseEnter ==
    /\ btn_pc = "idle"
    /\ btn_state' = mouse_enter(btn_state)
    /\ btn_last' = NoInput
    /\ UNCHANGED <<btn_disabled, btn_pc, btn_event, btn_loaded, btn_clicks>>

\* mouse_leave(&mut self)
MouseLeave ==
    /\ btn_pc = "idle"
    /\ btn_state' = mouse_leave(btn_state)
    /\ btn_last' = NoInput
    /\ UNCHANGED <<btn_disabled, btn_pc, btn_event, btn_loaded, btn_clicks>>

\* Another holder of the Arc<AtomicBool> stores into it, at any time.
StoreDisabled ==
    /\ btn_disabled' = ~btn_disabled
    /\ btn_last' = IF btn_pc = "idle" THEN NoInput ELSE btn_last
    /\ UNCHANGED <<btn_state, btn_pc, btn_event, btn_loaded, btn_clicks>>

\* process_mouse_input: `let disabled = self.disabled.load(Ordering::Relaxed);`
ProcessMouseInputLoad ==
    /\ btn_pc = "idle"
    /\ btn_clicks < MaxClicks
    /\ \E button \in MouseButtons, state \in ElementStates :
           btn_event' = [button |-> button, state |-> state]
    /\ btn_loaded' = btn_disabled
    /\ btn_pc' = "loaded"
    /\ btn_last' = NoInput
    /\ UNCHANGED <<btn_state, btn_disabled, btn_clicks>>

\* process_mouse_input: the match on the button and the element state.
ProcessMouseInputMatch ==
    LET r == process_mouse_input(btn_state, btn_loaded, btn_event.button,
                                 btn_event.state)
    IN  /\ btn_pc = "loaded"
        /\ btn_state' = r.state
        /\ btn_clicks' = btn_clicks + (IF r.on_click THEN 1 ELSE 0)
        /\ btn_last' = [button |-> btn_event.button,
                        state |-> btn_event.state,
                        before |-> btn_state,
                        disabled |-> btn_loaded,
                        flag_at_return |-> btn_disabled,
                        on_click |-> r.on_click,
                        handled |-> r.handled]
        /\ btn_pc' = "idle"
        /\ btn_event' = NoEvent
        /\ btn_loaded' = FALSE
        /\ UNCHANGED btn_disabled

(***************************************************************************)
(* AssetPath (qs-common/src/assets/path.rs)                                *)
(***************************************************************************)
\* The segments paths are made of: the two special ones and two names.
SegmentNames == {".", "..", "a", "b"}
\* The longest segment list AssetPath::new is called with.
MaxSegments == 4

\* The segment lists of length at most n.
SegmentLists(n) == UNION {[1..k -> SegmentNames] : k \in 0..n}

\* panic!("Could not parse path, use of `..` would escape asset directory")
Panicked == [panicked |-> TRUE, segments |-> <<>>]
\* AssetPath { segments }
AssetPath(segments) == [panicked |-> FALSE, segments |-> segments]

\* AssetPath::new with `..` on an empty path ignored instead of panicking.
RECURSIVE new_saturating(_, _)
new_saturating(segments, new_segments) ==
    IF segments = <<>>
    THEN AssetPath(new_segments)
    ELSE IF Head(segments) = "."
         THEN new_saturating(Tail(segments), new_segments)
         ELSE IF Head(segments) = ".."
              THEN IF new_segments = <<>>
                   THEN new_saturating(Tail(segments), new_segments)
                   ELSE new_saturating(Tail(segments),
                            SubSeq(new_segments, 1, Len(new_segments) - 1))
              ELSE new_saturating(Tail(segments),
                                  Append(new_segments, Head(segments)))

\* The loop of AssetPath::new over the segments left, new_segments being the
\* vector built so far.
RECURSIVE new_loop(_, _)
new_loop(segments, new_segments) ==
    IF segments = <<>>
    THEN AssetPath(new_segments)
    ELSE IF Head(segments) = "."
         THEN new_loop(Tail(segments), new_segments)
         ELSE IF Head(segments) = ".."
              THEN IF new_segments = <<>>
                   THEN Panicked
                   ELSE new_loop(Tail(segments),
                            SubSeq(new_segments, 1, Len(new_segments) - 1))
              ELSE new_loop(Tail(segments),
                            Append(new_segments, Head(segments)))

\* AssetPath::new
AssetPath_new(segments) == new_loop(segments, <<>>)

\* AssetPath::new is about to be called with some segment list.
APInit ==
    /\ ap_segments \in SegmentLists(MaxSegments)
    /\ ap_path = None
    /\ ap_again = None

\* No AssetPath is being made.
APIdle ==
    /\ ap_segments = <<>>
    /\ ap_path = None
    /\ ap_again = None

\* AssetPath::new(segments)
NewAssetPath ==
    /\ ap_path = None
    /\ ap_path' = Some(AssetPath_new(ap_segments))
    /\ UNCHANGED <<ap_segments, ap_again>>

\* AssetPath::new called with the segments of the path just made.
NewAssetPathAgain ==
    /\ ap_path # None
    /\ ~ap_path.value.panicked
    /\ ap_again = None
    /\ ap_again' = Some(AssetPath_new(ap_path.value.segments))
    /\ UNCHANGED <<ap_segments, ap_path>>

(***************************************************************************)
(* Camera (graphics/camera.rs)                                             *)
(***************************************************************************)
\* Positions of the eye, view heights, and window sizes (width, height).
Eyes == { <<0, 0>>, <<3, 1>>, <<0, 5>> }
ViewHeights == {2, 4, 6}
WindowSizes == { <<1, 1>>, <<2, 1>>, <<1, 2>> }

\* CameraData::Orthographic { eye, view_height, aspect_ratio }, the ratio
\* kept as the pair (width, height) it is the quotient of.
Orthographic(eye, view_height, aspect_ratio) ==
    [eye |-> eye, view_height |-> view_height, aspect_ratio |-> aspect_ratio]

\* CameraData::generate_projection_matrix: the matrix is given by the two
\* extents of the view volume, width = aspect_ratio * view_height (a whole
\* number for the view heights and window sizes used) and view_height; near
\* and far are fixed.
generate_projection_matrix(self) ==
    [matrix |-> "ortho",
     width |-> (self.aspect_ratio[1] * self.view_height)
                   \div self.aspect_ratio[2],
     height |-> self.view_height]

\* CameraData::generate_view_matrix: the translation by the eye.
generate_view_matrix(self) ==
    [matrix |-> "translation", x |-> self.eye[1], y |-> self.eye[2]]

\* CameraData::update_window_size
update_window_size(self, width, height) ==
    [self EXCEPT !.aspect_ratio = <<width, height>>]

\* Camera::new
Camera_new(data) ==
    [data |-> data, projection_matrix |-> None, view_matrix |-> None]

\* Camera::get_projection_matrix: the camera after the call and the matrix
\* returned.
get_projection_matrix(self) ==
    IF self.projection_matrix # None
    THEN [camera |-> self, matrix |-> self.projection_matrix.value]
    ELSE LET new_matrix == generate_projection_matrix(self.data)
         IN  [camera |-> [self EXCEPT !.projection_matrix = Some(new_matrix)],
              matrix |-> new_matrix]

\* Camera::get_view_matrix
get_view_matrix(self) ==
    IF self.view_matrix # None
    THEN [camera |-> self, matrix |-> self.view_matrix.value]
    ELSE LET new_matrix == generate_view_matrix(self.data)
         IN  [camera |-> [self EXCEPT !.view_matrix = Some(new_matrix)],
              matrix |-> new_matrix]

\* get_data_mut deleting the cached view matrix only.
get_data_mut_keeping_projection(self) ==
    [self EXCEPT !.view_matrix = None]

\* Camera::get_data_mut: the camera when the &mut CameraData is handed out.
get_data_mut(self) ==
    [self EXCEPT !.projection_matrix = None, !.view_matrix = None]

NoMatrix == [getter |-> "none", matrix |-> None]

\* Camera::new with some data.
CamInit ==
    /\ \E eye \in Eyes, view_height \in ViewHeights, size \in WindowSizes :
           camera = Camera_new(Orthographic(eye, view_height, size))
    /\ cam_borrowed = FALSE
    /\ cam_returned = NoMatrix

\* No camera is in use.
CamIdle ==
    /\ camera = Camera_new(Orthographic(<<0, 0>>, 2, <<1, 1>>))
    /\ cam_borrowed = FALSE
    /\ cam_returned = NoMatrix

\* get_projection_matrix(&self): not callable while a &mut borrow is alive.
GetProjectionMatrix ==
    LET r == get_projection_matrix(camera)
    IN  /\ ~cam_borrowed
        /\ camera' = r.camera
        /\ cam_returned' = [getter |-> "projection", matrix |-> Some(r.matrix)]
        /\ UNCHANGED cam_borrowed

\* get_view_matrix(&self)
GetViewMatrix ==
    LET r == get_view_matrix(camera)
    IN  /\ ~cam_borrowed
        /\ camera' = r.camera
        /\ cam_returned' = [getter |-> "view", matrix |-> Some(r.matrix)]
        /\ UNCHANGED cam_borrowed

\* get_data_mut(&mut self)
GetDataMut ==
    /\ ~cam_borrowed
    /\ camera' = get_data_mut(camera)
    /\ cam_borrowed' = TRUE
    /\ cam_returned' = NoMatrix

\* The holder of the &mut CameraData writes the data.
WriteCameraData ==
    /\ cam_borrowed
    /\ \E eye \in Eyes, view_height \in ViewHeights, size \in WindowSizes :
           /\ Orthographic(eye, view_height, size) # camera.data
           /\ camera' = [camera EXCEPT
                             !.data = Orthographic(eye, view_height, size)]
    /\ UNCHANGED <<cam_borrowed, cam_returned>>

\* The &mut CameraData is dropped.
ReleaseCameraData ==
    /\ cam_borrowed
    /\ cam_borrowed' = FALSE
    /\ UNCHANGED <<camera, cam_returned>>

\* Camera::update_window_size(&mut self, width, height)
UpdateWindowSize ==
    /\ ~cam_borrowed
    /\ \E size \in WindowSizes :
           camera' = [get_data_mut(camera) EXCEPT
                          !.data = update_window_size(@, size[1], size[2])]
    /\ cam_returned' = NoMatrix
    /\ UNCHANGED cam_borrowed

(***************************************************************************)
(* TextureRegion.info and its Mutex (graphics/texture.rs)                  *)
(***************************************************************************)
\* What the atlas holds under the region's name: a frame, or nothing.
AtlasLookups == AtlasRegions \cup {None}

\* Mutex::try_lock succeeds iff no one holds the lock.
try_lock(lock) == lock = "free"

\* NinePatch::no_margins over a region made by TextureRegion::new, whose
\* partitioned texture has not been loaded: info is None and the callback
\* is registered with on_load.
TRGInit ==
    /\ \E in_atlas \in AtlasLookups :
           np_patch = [texture_region |-> [name |-> "region",
                                           in_atlas |-> in_atlas,
                                           info |-> None],
                       left_margin |-> 0, right_margin |-> 0,
                       top_margin |-> 0, bottom_margin |-> 0]
    /\ np_result = None
    /\ info_lock = "free"
    /\ on_load_pc = "registered"
    /\ render_pc = "idle"
    /\ info_writes = 0
    /\ info_panics = {}

\* No texture region is being followed.
TRGIdle ==
    /\ info_lock = "free"
    /\ on_load_pc = "none"
    /\ render_pc = "idle"
    /\ info_writes = 0
    /\ info_panics = {}

\* The load of the partitioned texture fails: the callback is never run.
LoadFailed ==
    /\ on_load_pc = "registered"
    /\ on_load_pc' = "failed"
    /\ UNCHANGED <<np_patch, np_result, info_lock, render_pc, info_writes,
                   info_panics>>

\* The texture has loaded and the background task runs the callback:
\* `match tex.atlas.frames.get(&name)`, and in the Some arm
\* `cloned.info.try_lock().unwrap()`.
OnLoadCallback ==
    /\ on_load_pc = "registered"
    /\ IF np_patch.texture_region.in_atlas = None
       THEN /\ on_load_pc' = "done"
            /\ UNCHANGED <<info_lock, info_panics>>
       ELSE IF try_lock(info_lock)
            THEN /\ info_lock' = "on_load"
                 /\ on_load_pc' = "locked"
                 /\ UNCHANGED info_panics
            ELSE /\ on_load_pc' = "panicked"
                 /\ info_panics' = info_panics \cup {"on_load"}
                 /\ UNCHANGED info_lock
    /\ UNCHANGED <<np_patch, np_result, render_pc, info_writes>>

\* The callback's assignment through the guard, which is then dropped.
OnLoadStore ==
    /\ on_load_pc = "locked"
    /\ np_patch' = [np_patch EXCEPT !.texture_region.info =
                        Some(np_patch.texture_region.in_atlas)]
    /\ info_writes' = info_writes + 1
    /\ info_lock' = "free"
    /\ on_load_pc' = "done"
    /\ UNCHANGED <<np_result, render_pc, info_panics>>

\* NinePatch::generate_render_info on the render thread:
\* `self.texture_region.info.try_lock().unwrap()`.
RenderTryLock ==
    /\ render_pc = "idle"
    /\ np_result = None
    /\ IF try_lock(info_lock)
       THEN /\ info_lock' = "render"
            /\ render_pc' = "locked"
            /\ UNCHANGED info_panics
       ELSE /\ render_pc' = "panicked"
            /\ info_panics' = info_panics \cup {"render"}
            /\ UNCHANGED info_lock
    /\ UNCHANGED <<np_patch, np_result, on_load_pc, info_writes>>

\* The rest of generate_render_info: the match on the locked info (the guard
\* is dropped with it) and the nine quadrilaterals.
RenderLocked ==
    /\ render_pc = "locked"
    /\ \E x \in Corners, y \in Corners, width \in Extents, height \in Extents :
           np_result' = Some([x |-> x, y |-> y,
                              width |-> width, height |-> height,
                              region_info |-> np_patch.texture_region.info,
                              info |-> generate_render_info(
                                           np_patch, "WHITE", x, y,
                                           width, height)])
    /\ info_lock' = "free"
    /\ render_pc' = "idle"
    /\ UNCHANGED <<np_patch, on_load_pc, info_writes, info_panics>>

(***************************************************************************)
(* The locks taken by typeset_rich_text_line (ui/text.rs)                  *)
(***************************************************************************)
\* The tasks typesetting at the same time and the font assets they use.
TypesettingTasks == {1, 2}
FontAssets == {"font1", "font2"}
\* The characters a task typesets.
MaxTaskChars == 2

\* The locks: one around each font asset's data, and the two global maps.
LockNames == FontAssets \cup {"FONT_ID_MAP", "FONT_ID_TO_FONT_MAP"}

\* An RwLock no one holds.
FreeLock == [writer |-> 0, readers |-> {}]

\* RwLock::write() can be granted.
write_grantable(lock) == lock.writer = 0 /\ lock.readers = {}
\* RwLock::read() can be granted.
read_grantable(lock) == lock.writer = 0

\* A task about to typeset its first character.
NewTask == [pc |-> "next", font |-> "none", glyph_in |-> "none",
            last_glyph |-> "none", left |-> MaxTaskChars]

\* Some typesetting tasks have been spawned; all fonts are loaded.
TLInit ==
    /\ tl_tasks = [t \in TypesettingTasks |-> NewTask]
    /\ tl_locks = [l \in LockNames |-> FreeLock]

\* No typesetting task is being followed.
TLIdle ==
    /\ tl_tasks = [t \in TypesettingTasks |->
                      [pc |-> "done", font |-> "none", glyph_in |-> "none",
                       last_glyph |-> "none", left |-> 0]]
    /\ tl_locks = [l \in LockNames |-> FreeLock]

\* `for c in segment.text.chars()`: get_font_for_character is called for a
\* character some font of the family has, and comes to the first font.
NextCharacter(t) ==
    /\ tl_tasks[t].pc = "next"
    /\ tl_tasks[t].left > 0
    /\ \E glyph_in \in FontAssets :
           tl_tasks' = [tl_tasks EXCEPT ![t].pc = "lookup",
                                        ![t].font = "font1",
                                        ![t].glyph_in = glyph_in]
    /\ UNCHANGED tl_locks

\* get_font_for_character: `&*data.write().await`
LookupWriteData(t) ==
    /\ tl_tasks[t].pc = "lookup"
    /\ write_grantable(tl_locks[tl_tasks[t].font])
    /\ tl_locks' = [tl_locks EXCEPT ![tl_tasks[t].font].writer = t]
    /\ tl_tasks' = [tl_tasks EXCEPT ![t].pc = "data"]

\* The font has no glyph for the character: the guard is dropped and the
\* next variant or face is tried.
LookupNoGlyph(t) ==
    /\ tl_tasks[t].pc = "data"
    /\ tl_tasks[t].font # tl_tasks[t].glyph_in
    /\ tl_tasks' = [tl_tasks EXCEPT ![t].pc = "lookup",
                                    ![t].font = tl_tasks[t].glyph_in]
    /\ tl_locks' = [tl_locks EXCEPT ![tl_tasks[t].font].writer = 0]

\* The font has the glyph: get_font_id is called with the data guard alive,
\* `FONT_ID_MAP.write().await`.
LookupWriteFontIdMap(t) ==
    /\ tl_tasks[t].pc = "data"
    /\ tl_tasks[t].font = tl_tasks[t].glyph_in
    /\ write_grantable(tl_locks["FONT_ID_MAP"])
    /\ tl_locks' = [tl_locks EXCEPT !["FONT_ID_MAP"].writer = t]
    /\ tl_tasks' = [tl_tasks EXCEPT ![t].pc = "font_id_map"]

\* get_font_id: `FONT_ID_TO_FONT_MAP.write().await`
LookupWriteFontIdToFontMap(t) ==
    /\ tl_tasks[t].pc = "font_id_map"
    /\ write_grantable(tl_locks["FONT_ID_TO_FONT_MAP"])
    /\ tl_locks' = [tl_locks EXCEPT !["FONT_ID_TO_FONT_MAP"].writer = t]
    /\ tl_tasks' = [tl_tasks EXCEPT ![t].pc = "font_id"]

\* get_font_id returns, dropping its two guards, and get_font_for_character
\* returns, dropping the data guard.
LookupReturn(t) ==
    /\ tl_tasks[t].pc = "font_id"
    /\ tl_locks' = [tl_locks EXCEPT !["FONT_ID_MAP"].writer = 0,
                                    !["FONT_ID_TO_FONT_MAP"].writer = 0,
                                    ![tl_tasks[t].font].writer = 0]
    /\ tl_tasks' = [tl_tasks EXCEPT
                        ![t].pc = IF tl_tasks[t].last_glyph = tl_tasks[t].font
                                  THEN "kerning"
                                  ELSE "placed"]

\* `if font == last_font_id`: `FONT_ID_TO_FONT_MAP.read().await`
KerningReadFontIdToFontMap(t) ==
    /\ tl_tasks[t].pc = "kerning"
    /\ read_grantable(tl_locks["FONT_ID_TO_FONT_MAP"])
    /\ tl_locks' = [tl_locks EXCEPT !["FONT_ID_TO_FONT_MAP"].readers =
                                         @ \cup {t}]
    /\ tl_tasks' = [tl_tasks EXCEPT ![t].pc = "kerning_map"]

\* `&*font_asset_data.read().await`, with the map's read guard alive
KerningReadData(t) ==
    /\ tl_tasks[t].pc = "kerning_map"
    /\ read_grantable(tl_locks[tl_tasks[t].font])
    /\ tl_locks' = [tl_locks EXCEPT ![tl_tasks[t].font].readers = @ \cup {t}]
    /\ tl_tasks' = [tl_tasks EXCEPT ![t].pc = "kerning_data"]

\* pair_kerning is added to the caret and both read guards are dropped.
KerningDone(t) ==
    /\ tl_tasks[t].pc = "kerning_data"
    /\ tl_locks' = [tl_locks EXCEPT
                        !["FONT_ID_TO_FONT_MAP"].readers = @ \ {t},
                        ![tl_tasks[t].font].readers = @ \ {t}]
    /\ tl_tasks' = [tl_tasks EXCEPT ![t].pc = "placed"]

\* `last_glyph = Some((font, base_glyph.id()))` and the glyph is placed; the
\* loop goes to the next character, or the task ends.
PlaceGlyph(t) ==
    /\ tl_tasks[t].pc = "placed"
    /\ tl_tasks' = [tl_tasks EXCEPT
                        ![t].last_glyph = tl_tasks[t].font,
                        ![t].left = @ - 1,
                        ![t].pc = IF tl_tasks[t].left > 1 THEN "next"
                                  ELSE "done"]
    /\ UNCHANGED tl_locks

(***************************************************************************)
(* Specifications                                                          *)
(***************************************************************************)
\* MultiBatch.render walking one tree; nothing else is in use.
MultiBatchInit == MBInit /\ BIdle /\ RTIdle /\ TRIdle /\ TSIdle /\ NPIdle /\ FIInit /\ UIIdle /\ BtnIdle /\ APIdle /\ CamIdle /\ TRGIdle /\ TLIdle

MultiBatchNext ==
    \/ LayerFlush /\ UNCHANGED <<bVars, rtVars, trVars, tsVars, npVars, fiVars, uiVars, btnVars, apVars, camVars, trgVars, tlVars>>
    \/ Return /\ UNCHANGED <<bVars, rtVars, trVars, tsVars, npVars, fiVars, uiVars, btnVars, apVars, camVars, trgVars, tlVars>>
    \/ VisitNothing /\ UNCHANGED <<bVars, rtVars, trVars, tsVars, npVars, fiVars, uiVars, btnVars, apVars, camVars, trgVars, tlVars>>
    \/ VisitLayered /\ UNCHANGED <<bVars, rtVars, trVars, tsVars, npVars, fiVars, uiVars, btnVars, apVars, camVars, trgVars, tlVars>>
    \/ VisitAdjacent /\ UNCHANGED <<bVars, rtVars, trVars, tsVars, npVars, fiVars, uiVars, btnVars, apVars, camVars, trgVars, tlVars>>
    \/ VisitText /\ UNCHANGED <<bVars, rtVars, trVars, tsVars, npVars, fiVars, uiVars, btnVars, apVars, camVars, trgVars, tlVars>>
    \/ VisitImage /\ UNCHANGED <<bVars, rtVars, trVars, tsVars, npVars, fiVars, uiVars, btnVars, apVars, camVars, trgVars, tlVars>>
    \/ VisitImageRegion /\ UNCHANGED <<bVars, rtVars, trVars, tsVars, npVars, fiVars, uiVars, btnVars, apVars, camVars, trgVars, tlVars>>
    \/ WalkDone /\ UNCHANGED <<bVars, rtVars, trVars, tsVars, npVars, fiVars, uiVars, btnVars, apVars, camVars, trgVars, tlVars>>
    \/ FinalFlush /\ UNCHANGED <<bVars, rtVars, trVars, tsVars, npVars, fiVars, uiVars, btnVars, apVars, camVars, trgVars, tlVars>>

SpecMultiBatch == MultiBatchInit /\ [][MultiBatchNext]_vars

\* Batch.render consuming one iterator; nothing else is in use.
BatchInit == BInit /\ MBIdle /\ RTIdle /\ TRIdle /\ TSIdle /\ NPIdle /\ FIInit /\ UIIdle /\ BtnIdle /\ APIdle /\ CamIdle /\ TRGIdle /\ TLIdle

BatchNext ==
    \/ RenderEmpty /\ UNCHANGED <<mbVars, rtVars, trVars, tsVars, npVars, fiVars, uiVars, btnVars, apVars, camVars, trgVars, tlVars>>
    \/ RenderTriangle /\ UNCHANGED <<mbVars, rtVars, trVars, tsVars, npVars, fiVars, uiVars, btnVars, apVars, camVars, trgVars, tlVars>>
    \/ RenderQuadrilateral /\ UNCHANGED <<mbVars, rtVars, trVars, tsVars, npVars, fiVars, uiVars, btnVars, apVars, camVars, trgVars, tlVars>>
    \/ RenderEnd /\ UNCHANGED <<mbVars, rtVars, trVars, tsVars, npVars, fiVars, uiVars, btnVars, apVars, camVars, trgVars, tlVars>>

SpecBatch == BatchInit /\ [][BatchNext]_vars

\* One RichText, the callers of set_text and the typesetting tasks.
RichTextInit == RTInit /\ MBIdle /\ BIdle /\ TRIdle /\ TSIdle /\ NPIdle /\ FIInit /\ UIIdle /\ BtnIdle /\ APIdle /\ CamIdle /\ TRGIdle /\ TLIdle

RichTextNext ==
    \/ SetText /\ UNCHANGED <<mbVars, bVars, trVars, tsVars, npVars, fiVars, uiVars, btnVars, apVars, camVars, trgVars, tlVars>>
    \/ BuilderWrite /\ UNCHANGED <<mbVars, bVars, trVars, tsVars, npVars, fiVars, uiVars, btnVars, apVars, camVars, trgVars, tlVars>>
    \/ BuilderWriteGlued /\ UNCHANGED <<mbVars, bVars, trVars, tsVars, npVars, fiVars, uiVars, btnVars, apVars, camVars, trgVars, tlVars>>
    \/ BuilderEndParagraph /\ UNCHANGED <<mbVars, bVars, trVars, tsVars, npVars, fiVars, uiVars, btnVars, apVars, camVars, trgVars, tlVars>>
    \/ Finish /\ UNCHANGED <<mbVars, bVars, trVars, tsVars, npVars, fiVars, uiVars, btnVars, apVars, camVars, trgVars, tlVars>>
    \/ TaskTypeset /\ UNCHANGED <<mbVars, bVars, trVars, tsVars, npVars, fiVars, uiVars, btnVars, apVars, camVars, trgVars, tlVars>>
    \/ TaskWrite /\ UNCHANGED <<mbVars, bVars, trVars, tsVars, npVars, fiVars, uiVars, btnVars, apVars, camVars, trgVars, tlVars>>

SpecRichText == RichTextInit /\ [][RichTextNext]_vars

\* The TypesetText objects drawn frame after frame with one glyph cache.
TypesetRenderInit == TRInit /\ MBIdle /\ BIdle /\ RTIdle /\ TSIdle /\ NPIdle /\ FIInit /\ UIIdle /\ BtnIdle /\ APIdle /\ CamIdle /\ TRGIdle /\ TLIdle

TypesetRenderNext ==
    \/ Retypeset /\ UNCHANGED <<mbVars, bVars, rtVars, tsVars, npVars, fiVars, uiVars, btnVars, apVars, camVars, trgVars, tlVars>>
    \/ Render /\ UNCHANGED <<mbVars, bVars, rtVars, tsVars, npVars, fiVars, uiVars, btnVars, apVars, camVars, trgVars, tlVars>>

SpecTypesetRender == TypesetRenderInit /\ [][TypesetRenderNext]_vars

\* typeset_rich_text called once, followed line by line.
TypesetInit == TSInit /\ MBIdle /\ BIdle /\ RTIdle /\ TRIdle /\ NPIdle /\ FIInit /\ UIIdle /\ BtnIdle /\ APIdle /\ CamIdle /\ TRGIdle /\ TLIdle

TypesetNext ==
    \/ TypesetLine /\ UNCHANGED <<mbVars, bVars, rtVars, trVars, npVars, fiVars, uiVars, btnVars, apVars, camVars, trgVars, tlVars>>
    \/ TypesetNextParagraph /\ UNCHANGED <<mbVars, bVars, rtVars, trVars, npVars, fiVars, uiVars, btnVars, apVars, camVars, trgVars, tlVars>>
    \/ TypesetReturn /\ UNCHANGED <<mbVars, bVars, rtVars, trVars, npVars, fiVars, uiVars, btnVars, apVars, camVars, trgVars, tlVars>>

SpecTypeset == TypesetInit /\ [][TypesetNext]_vars

\* NinePatch.generate_render_info on one nine-patch; nothing else is in use.
NinePatchInit == NPInit /\ MBIdle /\ BIdle /\ RTIdle /\ TRIdle /\ TSIdle /\ FIInit /\ UIIdle /\ BtnIdle /\ APIdle /\ CamIdle /\ TRGIdle /\ TLIdle

NinePatchNext ==
    \/ RegionLoaded /\ UNCHANGED <<mbVars, bVars, rtVars, trVars, tsVars, fiVars, uiVars, btnVars, apVars, camVars, trgVars, tlVars>>
    \/ GenerateRenderInfo /\ UNCHANGED <<mbVars, bVars, rtVars, trVars, tsVars, fiVars, uiVars, btnVars, apVars, camVars, trgVars, tlVars>>
    \/ TakeRenderInfo /\ UNCHANGED <<mbVars, bVars, rtVars, trVars, tsVars, fiVars, uiVars, btnVars, apVars, camVars, trgVars, tlVars>>

SpecNinePatch == NinePatchInit /\ [][NinePatchNext]_vars

\* Tasks calling get_font_id concurrently; nothing else is in use.
FontIdInit == FIInit /\ MBIdle /\ BIdle /\ RTIdle /\ TRIdle /\ TSIdle /\ NPIdle /\ UIIdle /\ BtnIdle /\ APIdle /\ CamIdle /\ TRGIdle /\ TLIdle

FontIdNext ==
    \/ CallGetFontId /\ UNCHANGED <<mbVars, bVars, rtVars, trVars, tsVars, npVars, uiVars, btnVars, apVars, camVars, trgVars, tlVars>>
    \/ LockFontIdMap /\ UNCHANGED <<mbVars, bVars, rtVars, trVars, tsVars, npVars, uiVars, btnVars, apVars, camVars, trgVars, tlVars>>
    \/ LockFontIdToFontMap /\ UNCHANGED <<mbVars, bVars, rtVars, trVars, tsVars, npVars, uiVars, btnVars, apVars, camVars, trgVars, tlVars>>
    \/ Entry /\ UNCHANGED <<mbVars, bVars, rtVars, trVars, tsVars, npVars, uiVars, btnVars, apVars, camVars, trgVars, tlVars>>
    \/ OrInsertWith /\ UNCHANGED <<mbVars, bVars, rtVars, trVars, tsVars, npVars, uiVars, btnVars, apVars, camVars, trgVars, tlVars>>
    \/ ReturnFontId /\ UNCHANGED <<mbVars, bVars, rtVars, trVars, tsVars, npVars, uiVars, btnVars, apVars, camVars, trgVars, tlVars>>
    \/ ReadFontIdToFontMap /\ UNCHANGED <<mbVars, bVars, rtVars, trVars, tsVars, npVars, uiVars, btnVars, apVars, camVars, trgVars, tlVars>>
    \/ ReadFontIdToFontMapDone /\ UNCHANGED <<mbVars, bVars, rtVars, trVars, tsVars, npVars, uiVars, btnVars, apVars, camVars, trgVars, tlVars>>

SpecFontId == FontIdInit /\ [][FontIdNext]_vars

\* Widgets and UIs being made, changed and rendered; nothing else is in use.
UISpecInit == UIBuiltInit /\ MBIdle /\ BIdle /\ RTIdle /\ TRIdle /\ TSIdle /\ NPIdle /\ FIInit /\ BtnIdle /\ APIdle /\ CamIdle /\ TRGIdle /\ TLIdle

UISpecNext ==
    \/ AddChild /\ UNCHANGED <<mbVars, bVars, rtVars, trVars, tsVars, npVars, fiVars, btnVars, apVars, camVars, trgVars, tlVars>>
    \/ ClearChildren /\ UNCHANGED <<mbVars, bVars, rtVars, trVars, tsVars, npVars, fiVars, btnVars, apVars, camVars, trgVars, tlVars>>
    \/ UpdateSize /\ UNCHANGED <<mbVars, bVars, rtVars, trVars, tsVars, npVars, fiVars, btnVars, apVars, camVars, trgVars, tlVars>>
    \/ CommitTypeset /\ UNCHANGED <<mbVars, bVars, rtVars, trVars, tsVars, npVars, fiVars, btnVars, apVars, camVars, trgVars, tlVars>>
    \/ UILayout /\ UNCHANGED <<mbVars, bVars, rtVars, trVars, tsVars, npVars, fiVars, btnVars, apVars, camVars, trgVars, tlVars>>
    \/ UIRender /\ UNCHANGED <<mbVars, bVars, rtVars, trVars, tsVars, npVars, fiVars, btnVars, apVars, camVars, trgVars, tlVars>>

SpecUI == UISpecInit /\ [][UISpecNext]_vars

\* Widget trees being put together and attached to UIs, and force_layout
\* called on them.
WidgetTreeInit == UIInit /\ MBIdle /\ BIdle /\ RTIdle /\ TRIdle /\ TSIdle /\ NPIdle /\ FIInit /\ BtnIdle /\ APIdle /\ CamIdle /\ TRGIdle /\ TLIdle

WidgetTreeNext ==
    \/ NewWidget /\ UNCHANGED <<mbVars, bVars, rtVars, trVars, tsVars, npVars, fiVars, btnVars, apVars, camVars, trgVars, tlVars>>
    \/ NewUI /\ UNCHANGED <<mbVars, bVars, rtVars, trVars, tsVars, npVars, fiVars, btnVars, apVars, camVars, trgVars, tlVars>>
    \/ AddChild /\ UNCHANGED <<mbVars, bVars, rtVars, trVars, tsVars, npVars, fiVars, btnVars, apVars, camVars, trgVars, tlVars>>
    \/ DropUI /\ UNCHANGED <<mbVars, bVars, rtVars, trVars, tsVars, npVars, fiVars, btnVars, apVars, camVars, trgVars, tlVars>>
    \/ ForceLayout /\ UNCHANGED <<mbVars, bVars, rtVars, trVars, tsVars, npVars, fiVars, btnVars, apVars, camVars, trgVars, tlVars>>

SpecWidgetTree == WidgetTreeInit /\ [][WidgetTreeNext]_vars

(***************************************************************************)
(* MultiBatch: the claims                                                  *)
(***************************************************************************)
\* One disableable button receiving mouse events while the holders of its
\* flag store into it.
ButtonInit == BtnInit /\ MBIdle /\ BIdle /\ RTIdle /\ TRIdle /\ TSIdle /\ NPIdle /\ FIInit /\ UIIdle /\ APIdle /\ CamIdle /\ TRGIdle /\ TLIdle

ButtonNext ==
    \/ MouseEnter /\ UNCHANGED <<mbVars, bVars, rtVars, trVars, tsVars, npVars, fiVars, uiVars, apVars, camVars, trgVars, tlVars>>
    \/ MouseLeave /\ UNCHANGED <<mbVars, bVars, rtVars, trVars, tsVars, npVars, fiVars, uiVars, apVars, camVars, trgVars, tlVars>>
    \/ StoreDisabled /\ UNCHANGED <<mbVars, bVars, rtVars, trVars, tsVars, npVars, fiVars, uiVars, apVars, camVars, trgVars, tlVars>>
    \/ ProcessMouseInputLoad /\ UNCHANGED <<mbVars, bVars, rtVars, trVars, tsVars, npVars, fiVars, uiVars, apVars, camVars, trgVars, tlVars>>
    \/ ProcessMouseInputMatch /\ UNCHANGED <<mbVars, bVars, rtVars, trVars, tsVars, npVars, fiVars, uiVars, apVars, camVars, trgVars, tlVars>>

SpecButton == ButtonInit /\ [][ButtonNext]_vars

\* AssetPath::new called with one segment list, and again with its result.
AssetPathInit == APInit /\ MBIdle /\ BIdle /\ RTIdle /\ TRIdle /\ TSIdle /\ NPIdle /\ FIInit /\ UIIdle /\ BtnIdle /\ CamIdle /\ TRGIdle /\ TLIdle

AssetPathNext ==
    \/ NewAssetPath /\ UNCHANGED <<mbVars, bVars, rtVars, trVars, tsVars, npVars, fiVars, uiVars, btnVars, camVars, trgVars, tlVars>>
    \/ NewAssetPathAgain /\ UNCHANGED <<mbVars, bVars, rtVars, trVars, tsVars, npVars, fiVars, uiVars, btnVars, camVars, trgVars, tlVars>>

SpecAssetPath == AssetPathInit /\ [][AssetPathNext]_vars

\* One camera whose matrices are read while its data is changed.
CameraInit == CamInit /\ MBIdle /\ BIdle /\ RTIdle /\ TRIdle /\ TSIdle /\ NPIdle /\ FIInit /\ UIIdle /\ BtnIdle /\ APIdle /\ TRGIdle /\ TLIdle

CameraNext ==
    \/ GetProjectionMatrix /\ UNCHANGED <<mbVars, bVars, rtVars, trVars, tsVars, npVars, fiVars, uiVars, btnVars, apVars, trgVars, tlVars>>
    \/ GetViewMatrix /\ UNCHANGED <<mbVars, bVars, rtVars, trVars, tsVars, npVars, fiVars, uiVars, btnVars, apVars, trgVars, tlVars>>
    \/ GetDataMut /\ UNCHANGED <<mbVars, bVars, rtVars, trVars, tsVars, npVars, fiVars, uiVars, btnVars, apVars, trgVars, tlVars>>
    \/ WriteCameraData /\ UNCHANGED <<mbVars, bVars, rtVars, trVars, tsVars, npVars, fiVars, uiVars, btnVars, apVars, trgVars, tlVars>>
    \/ ReleaseCameraData /\ UNCHANGED <<mbVars, bVars, rtVars, trVars, tsVars, npVars, fiVars, uiVars, btnVars, apVars, trgVars, tlVars>>
    \/ UpdateWindowSize /\ UNCHANGED <<mbVars, bVars, rtVars, trVars, tsVars, npVars, fiVars, uiVars, btnVars, apVars, trgVars, tlVars>>

SpecCamera == CameraInit /\ [][CameraNext]_vars

\* A nine-patch drawn frame after frame by the render thread while the
\* partitioned texture of its region loads in the background.
TextureRegionInit == TRGInit /\ MBIdle /\ BIdle /\ RTIdle /\ TRIdle /\ TSIdle /\ FIInit /\ UIIdle /\ BtnIdle /\ APIdle /\ CamIdle /\ TLIdle

TextureRegionNext ==
    \/ LoadFailed /\ UNCHANGED <<mbVars, bVars, rtVars, trVars, tsVars, fiVars, uiVars, btnVars, apVars, camVars, tlVars>>
    \/ OnLoadCallback /\ UNCHANGED <<mbVars, bVars, rtVars, trVars, tsVars, fiVars, uiVars, btnVars, apVars, camVars, tlVars>>
    \/ OnLoadStore /\ UNCHANGED <<mbVars, bVars, rtVars, trVars, tsVars, fiVars, uiVars, btnVars, apVars, camVars, tlVars>>
    \/ RenderTryLock /\ UNCHANGED <<mbVars, bVars, rtVars, trVars, tsVars, fiVars, uiVars, btnVars, apVars, camVars, tlVars>>
    \/ RenderLocked /\ UNCHANGED <<mbVars, bVars, rtVars, trVars, tsVars, fiVars, uiVars, btnVars, apVars, camVars, tlVars>>
    \/ TakeRenderInfo /\ UNCHANGED <<mbVars, bVars, rtVars, trVars, tsVars, fiVars, uiVars, btnVars, apVars, camVars, trgVars, tlVars>>

SpecTextureRegion == TextureRegionInit /\ [][TextureRegionNext]_vars

\* Typesetting tasks running at the same time over the same fonts.
TypesetLocksInit == TLInit /\ MBIdle /\ BIdle /\ RTIdle /\ TRIdle /\ TSIdle /\ NPIdle /\ FIInit /\ UIIdle /\ BtnIdle /\ APIdle /\ CamIdle /\ TRGIdle

TypesetLocksNext ==
    \/ (\E t \in TypesettingTasks : NextCharacter(t)) /\ UNCHANGED <<mbVars, bVars, rtVars, trVars, tsVars, npVars, fiVars, uiVars, btnVars, apVars, camVars, trgVars>>
    \/ (\E t \in TypesettingTasks : LookupWriteData(t)) /\ UNCHANGED <<mbVars, bVars, rtVars, trVars, tsVars, npVars, fiVars, uiVars, btnVars, apVars, camVars, trgVars>>
    \/ (\E t \in TypesettingTasks : LookupNoGlyph(t)) /\ UNCHANGED <<mbVars, bVars, rtVars, trVars, tsVars, npVars, fiVars, uiVars, btnVars, apVars, camVars, trgVars>>
    \/ (\E t \in TypesettingTasks : LookupWriteFontIdMap(t)) /\ UNCHANGED <<mbVars, bVars, rtVars, trVars, tsVars, npVars, fiVars, uiVars, btnVars, apVars, camVars, trgVars>>
    \/ (\E t \in TypesettingTasks : LookupWriteFontIdToFontMap(t)) /\ UNCHANGED <<mbVars, bVars, rtVars, trVars, tsVars, npVars, fiVars, uiVars, btnVars, apVars, camVars, trgVars>>
    \/ (\E t \in TypesettingTasks : LookupReturn(t)) /\ UNCHANGED <<mbVars, bVars, rtVars, trVars, tsVars, npVars, fiVars, uiVars, btnVars, apVars, camVars, trgVars>>
    \/ (\E t \in TypesettingTasks : KerningReadFontIdToFontMap(t)) /\ UNCHANGED <<mbVars, bVars, rtVars, trVars, tsVars, npVars, fiVars, uiVars, btnVars, apVars, camVars, trgVars>>
    \/ (\E t \in TypesettingTasks : KerningReadData(t)) /\ UNCHANGED <<mbVars, bVars, rtVars, trVars, tsVars, npVars, fiVars, uiVars, btnVars, apVars, camVars, trgVars>>
    \/ (\E t \in TypesettingTasks : KerningDone(t)) /\ UNCHANGED <<mbVars, bVars, rtVars, trVars, tsVars, npVars, fiVars, uiVars, btnVars, apVars, camVars, trgVars>>
    \/ (\E t \in TypesettingTasks : PlaceGlyph(t)) /\ UNCHANGED <<mbVars, bVars, rtVars, trVars, tsVars, npVars, fiVars, uiVars, btnVars, apVars, camVars, trgVars>>

SpecTypesetLocks == TypesetLocksInit /\ [][TypesetLocksNext]_vars

Range(seq) == {seq[i] : i \in 1..Len(seq)}

\* The draw calls made to the shape batch (Batch.render invocations) and to
\* the text renderer (draw_text invocations).
ShapeDraws == {i \in 1..Len(draws) : draws[i].batch = "shape"}
TextDraws == {i \in 1..Len(draws) : draws[i].batch = "text"}

\* Path p lies in an earlier layer than path q: below some common Layered
\* node, p descends into an earlier child than q.
LayerBefore(p, q) ==
    \E k \in 1..Len(p) :
        /\ k <= Len(q)
        /\ SubSeq(p, 1, k - 1) = SubSeq(q, 1, k - 1)
        /\ p[k][1] = "Layered"
        /\ q[k][1] = "Layered"
        /\ p[k][2] < q[k][2]

\* C1 (as claimed): for Layered([A, B]) every renderable and text run of A is
\* submitted in a draw call strictly before every draw call that holds a
\* renderable or text run of B, whatever the load states of the textures.
C1_LayerOrdering ==
    \A i \in 1..Len(draws), j \in 1..Len(draws) :
        \A x \in Range(draws[i].items), y \in Range(draws[j].items) :
            LayerBefore(x.path, y.path) => i < j

\* C2 (as claimed): a perform_render that finds pending shapes whose committed
\* texture is not loaded leaves the pending shape list empty and the committed
\* texture at the sentinel.
C2_TransientMissDrop ==
    [][ ( /\ Len(flushes') = Len(flushes) + 1
          /\ flushes'[Len(flushes')].miss
          /\ flushes'[Len(flushes')].cause # "texture" )
        => ( /\ batch_render_data' = <<>>
             /\ batch_render_texture' = Nothing ) ]_vars

\* C6 (as claimed): once render has returned, the number of shape draw calls
\* is at most T + 1.
C6_ShapeDrawsAtMostT1 ==
    mb_pc = "done" => Cardinality(ShapeDraws) <= transitions + 1

\* C6 (amended): the shape draw calls not issued by a layer-boundary flush
\* number at most T + 1; T + 1 is exceeded only by layer-boundary flushes.
C6_NonLayerShapeDraws ==
    Cardinality({i \in ShapeDraws : draws[i].cause # "layer"})
        <= transitions + 1

\* C6 witness: render has returned having made T + 1 shape draw calls outside
\* layer boundaries and one more at a layer boundary.
C6_Witness ==
    /\ mb_pc = "done"
    /\ transitions >= 1
    /\ Cardinality({i \in ShapeDraws : draws[i].cause # "layer"})
           = transitions + 1
    /\ \E i \in ShapeDraws : draws[i].cause = "layer"

\* C7 (as claimed): every layer segment sees at most one text draw call.
C7_OneTextDrawPerLayerSegment ==
    \A s \in 0..segment :
        Cardinality({i \in TextDraws : draws[i].seg = s}) <= 1

\* C7 (amended): a layer segment sees at most one text draw call per flush
\* made in it: one for the flush that ends the segment and one for each
\* texture-incompatibility flush inside it.
C7_TextDrawsPerSegment ==
    \A s \in 0..segment :
        Cardinality({i \in TextDraws : draws[i].seg = s})
            <= 1 + Cardinality({f \in 1..Len(flushes) :
                                   /\ flushes[f].cause = "texture"
                                   /\ flushes[f].seg = s})

\* C7 witness: render has returned and one layer segment saw two text draw
\* calls, the first made by a texture-incompatibility flush.
C7_Witness ==
    /\ mb_pc = "done"
    /\ \E i \in TextDraws, j \in TextDraws :
           /\ i # j
           /\ draws[i].seg = draws[j].seg
           /\ draws[i].cause = "texture"

\* C8: the shape draw calls number at most T + L + 1.
C8_ShapeDrawsAtMostTL1 ==
    Cardinality(ShapeDraws) <= transitions + boundaries + 1

\* C8 witness: render has returned having made exactly T + L + 1 shape draw
\* calls, with T >= 1 and L >= 1.
C8_Witness ==
    /\ mb_pc = "done"
    /\ transitions >= 1
    /\ boundaries >= 1
    /\ Cardinality(ShapeDraws) = transitions + boundaries + 1

\* The texture an Image/ImageRegion node is keyed by: an Image by its texture
\* asset, an ImageRegion by the partitioned texture of its region.
NodeKey(node) ==
    IF node.kind = "Image"
    THEN Texture(node.src)
    ELSE PartitionedTexture(
             (CHOOSE r \in TextureRegions : r.name = node.src)
                 .partitioned_texture)

\* C9: walking an Image/ImageRegion node makes a flush exactly when the
\* committed texture is neither the sentinel nor the node's texture; without
\* a flush the node's renderables are appended to the pending list and no
\* draw is issued; afterwards the node's texture is the committed one.
C9_RenderCompatibility ==
    [][ last_node'.kind \in {"Image", "ImageRegion"}
        => LET key == NodeKey(last_node')
               incompatible == /\ batch_render_texture # Nothing
                               /\ batch_render_texture # key
           IN  /\ Len(flushes') = Len(flushes) + (IF incompatible THEN 1 ELSE 0)
               /\ ~incompatible =>
                     /\ batch_render_data'
                            = batch_render_data \o last_node'.renderables
                     /\ draws' = draws
                     /\ text_render_data' = text_render_data
               /\ batch_render_texture' = key ]_vars

\* C9 witness: two different regions of one atlas share the pending list, no
\* flush having been made.
C9_Witness ==
    /\ last_node.kind = "ImageRegion"
    /\ flushes = <<>>
    /\ \E x \in Range(batch_render_data), y \in Range(batch_render_data) :
           x.src = "ra" /\ y.src = "rb"

(***************************************************************************)
(* Batch: the claims                                                       *)
(***************************************************************************)
\* C4: after each addition the accumulated vertex count is at most
\* MAX_VERTEX_COUNT and the accumulated index count at most MAX_INDEX_COUNT,
\* and a flush was made before the addition exactly when the addition would
\* otherwise have exceeded one of the two.
C4_CapacityFlush ==
    /\ VertsLen(verts) <= MAX_VERTEX_COUNT
    /\ IndsLen(inds) <= MAX_INDEX_COUNT
    /\ last_add.kind # "None" =>
          /\ last_add.flushed <=>
                \/ last_add.verts_before + last_add.new_verts > MAX_VERTEX_COUNT
                \/ last_add.inds_before + last_add.new_inds > MAX_INDEX_COUNT
          /\ VertsLen(verts)
                = (IF last_add.flushed THEN 0 ELSE last_add.verts_before)
                      + last_add.new_verts
          /\ IndsLen(inds)
                = (IF last_add.flushed THEN 0 ELSE last_add.inds_before)
                      + last_add.new_inds

\* C4 witness: a Quadrilateral met a full vertex vector, which was flushed
\* before the Quadrilateral was added.
C4_Witness ==
    /\ last_add.kind = "Quadrilateral"
    /\ last_add.flushed
    /\ last_add.verts_before = MAX_VERTEX_COUNT
    /\ VertsLen(verts) = 4

\* C5: every draw call flush issues has an even number of indices, at most
\* MAX_INDEX_COUNT: the accumulated indices as they are when their number is
\* even, and followed by one index 0 when it is odd.
C5_IndexParity ==
    [][ Len(batch_draws') # Len(batch_draws)
        => LET d == batch_draws'[Len(batch_draws')]
               n == IndsLen(inds)
           IN  /\ Len(batch_draws') = Len(batch_draws) + 1
               /\ IndsLen(d.inds) % 2 = 0
               /\ IndsLen(d.inds) <= MAX_INDEX_COUNT
               /\ IndsLen(d.inds) = n + (n % 2)
               /\ d.inds.q = inds.q
               /\ d.inds.t = inds.t
               /\ SubSeq(d.inds.tail, 1, Len(inds.tail)) = inds.tail
               /\ n % 2 = 1 => IndAt(d.inds, n + 1) = 0
      ]_vars

\* C5 witness: a draw call was issued for an odd number of accumulated
\* indices near capacity, so its last index is the padding.
C5_Witness ==
    \E k \in 1..Len(batch_draws) :
        LET d == batch_draws[k]
            n == IndsLen(d.inds)
        IN  /\ n > MAX_VERTEX_COUNT
            /\ IndAt(d.inds, n) = 0
            /\ IndAt(d.inds, n - 1) # 0

(***************************************************************************)
(* RichText: the claims                                                    *)
(***************************************************************************)
\* The calls of write made by a task whose text_id was the current one.
Current == {k \in 1..Len(commit_log) :
               commit_log[k].text_id = commit_log[k].current_text_id}

\* C3: whatever the order of the set_text calls and of the tasks' ends, the
\* RichText holds the paragraphs and the TypesetText of the last task that
\* found its text_id current when it called write (nothing before any did);
\* those tasks come in the order of their text_ids, so a result that arrives
\* after a later set_text's is discarded and never put back.
C3_LastWriteWins ==
    /\ \A j \in Current, k \in Current :
           j < k => commit_log[j].text_id < commit_log[k].text_id
    /\ IF Current = {}
       THEN /\ rich_text.paragraphs = <<>>
            /\ rich_text.typeset = None
       ELSE LET e == commit_log[CHOOSE k \in Current : \A j \in Current : j <= k]
            IN  /\ rich_text.paragraphs = e.paragraphs
                /\ rich_text.typeset = Some(e.typeset_text)
                /\ e.typeset_text =
                       typeset_rich_text(e.paragraphs, rich_text.max_width).text

\* C3 witness: the task of the second set_text called write before the task
\* of the first, with another text, and the RichText holds the second's.
C3_Witness ==
    \E j \in 1..Len(commit_log), k \in 1..Len(commit_log) :
        /\ j < k
        /\ commit_log[j].text_id = 2
        /\ commit_log[k].text_id = 1
        /\ commit_log[j].typeset_text.glyphs # commit_log[k].typeset_text.glyphs
        /\ commit_log[j].typeset_text.glyphs # <<>>
        /\ rich_text.typeset = Some(commit_log[j].typeset_text)
        /\ rich_text.paragraphs = commit_log[j].paragraphs

(***************************************************************************)
(* TypesetText.render: the claims                                          *)
(***************************************************************************)
\* C10: a call of render that draws reuses the memo only if the memo was
\* built for the generation that holds after the call's cache_queued; if the
\* generation has moved since the memo was built, the rectangles are queried
\* anew and the memo replaced; and every rectangle drawn was captured in the
\* packing the cache has at the draw.
C10_GlyphRectangleStaleness ==
    last_render.kind = "Drawn" =>
        /\ last_render.reused =>
              /\ last_render.had_memo
              /\ last_render.memo_generation = last_render.cache_generation
        /\ (last_render.had_memo
              /\ last_render.memo_generation # last_render.cache_generation) =>
              /\ ~last_render.reused
              /\ last_render.memo_generation_after = last_render.cache_generation
              /\ last_render.memo_after = Some(last_render.items)
        /\ \A k \in 1..Len(last_render.items) :
              last_render.items[k].rect.packing = last_render.packing

\* C10 witness: a text with a memo was drawn by the call in which the cache
\* repacked, with rectangles of the new packing.
C10_Witness ==
    /\ last_render.kind = "Drawn"
    /\ last_render.had_memo
    /\ last_render.cache_generation = last_render.generation_before + 1
    /\ last_render.memo_generation = last_render.generation_before
    /\ ~last_render.reused
    /\ last_render.items # <<>>

(***************************************************************************)
(* typeset_rich_text: the claims                                           *)
(***************************************************************************)
\* How many of its segments a call of typeset_rich_text_line put on the line.
Consumed(entry) == Len(entry.segments) - Len(entry.excess)

\* The variants looked through for an emphasis, the most specific first.
Chain(emphasis) ==
    CASE emphasis = "BoldItalic" -> <<"BoldItalic", "Bold", "Italic", "Regular">>
      [] emphasis = "Bold" -> <<"Bold", "Regular">>
      [] emphasis = "Italic" -> <<"Italic", "Regular">>
      [] emphasis = "Regular" -> <<"Regular">>

Variant(font_face, emphasis) ==
    CASE emphasis = "BoldItalic" -> font_face.bold_italic
      [] emphasis = "Bold" -> font_face.bold
      [] emphasis = "Italic" -> font_face.italic
      [] emphasis = "Regular" -> Some(font_face.regular)

\* The (face, variant) pairs in the order of the chain: face by face, and
\* within a face by Chain.
Candidates(font_family, emphasis) ==
    [k \in 1..(Len(font_family) * Len(Chain(emphasis))) |->
        [face |-> font_family[((k - 1) \div Len(Chain(emphasis))) + 1],
         variant |-> Chain(emphasis)[((k - 1) % Len(Chain(emphasis))) + 1]]]

\* The first candidate that has a glyph for c, as font id and glyph.
FirstResolving(style, c) ==
    LET cands == Candidates(style.font_family, style.emphasis)
        has == {k \in 1..Len(cands) :
                   HasVariantGlyph(Variant(cands[k].face, cands[k].variant), c)}
    IN  IF has = {}
        THEN None
        ELSE LET k == CHOOSE k \in has : \A j \in has : k <= j
             IN  Some(<<FontId(cands[k].face, cands[k].variant, style.size), c>>)

\* What is rendered for c: c, else U+FFFD, else '?', else nothing.
Resolved(style, c) ==
    IF FirstResolving(style, c) # None
    THEN FirstResolving(style, c)
    ELSE IF FirstResolving(style, REPLACEMENT_CHARACTER) # None
    THEN FirstResolving(style, REPLACEMENT_CHARACTER)
    ELSE FirstResolving(style, QUESTION_MARK)

RECURSIVE ExpectedOfText(_, _)
ExpectedOfText(style, text) ==
    IF text = <<>>
    THEN <<>>
    ELSE (IF Resolved(style, Head(text)) = None
          THEN <<>>
          ELSE << Resolved(style, Head(text)).value >>)
         \o ExpectedOfText(style, Tail(text))

\* The font ids and glyphs expected for the segments, in order.
RECURSIVE ExpectedGlyphs(_)
ExpectedGlyphs(segments) ==
    IF segments = <<>>
    THEN <<>>
    ELSE ExpectedOfText(Head(segments).style, Head(segments).text)
         \o ExpectedGlyphs(Tail(segments))

\* C11: every line typeset_rich_text_line makes holds whole segments, the
\* rest being the excess; a segment glued to the previous one is never the
\* first of the excess while its predecessor is on the line, and a line that
\* is broken is broken at a segment that is not glued to the previous one.
C11_WordGlueBoundary ==
    \A i \in 1..Len(ts_lines) :
        LET entry == ts_lines[i]
            n == Len(entry.segments)
            e == Consumed(entry)
        IN  /\ e >= 0
            /\ entry.excess = SubSeq(entry.segments, e + 1, n)
            /\ Len(entry.line) = Len(ExpectedGlyphs(SubSeq(entry.segments, 1, e)))
            /\ \A k \in 2..n :
                   entry.segments[k].glue_to_previous => ~(k - 1 <= e /\ k > e)
            /\ (e >= 1 /\ e < n) => ~entry.segments[e + 1].glue_to_previous

\* C11 witness: a line was broken before a word of two glued segments, and a
\* line was broken between two segments written with write.
C11_Witness ==
    /\ \E i \in 1..Len(ts_lines) :
           LET entry == ts_lines[i]
               e == Consumed(entry)
           IN  /\ e >= 1
               /\ e + 2 <= Len(entry.segments)
               /\ entry.segments[e + 2].glue_to_previous
               /\ entry.line # <<>>
    /\ ts_pc = "done"

\* C14: the glyphs of every line are those of the first (face, variant) of
\* the chain that has the character - the faces in order and in each face
\* the variants from the most specific to regular - or of U+FFFD, or of '?',
\* looked up the same way; a character none resolves is left out and the
\* characters after it are typeset.
C14_FontFallbackChain ==
    /\ \A i \in 1..Len(ts_lines) :
           LET entry == ts_lines[i]
           IN  [k \in 1..Len(entry.line) |->
                   <<entry.line[k].font, entry.line[k].c>>]
                   = ExpectedGlyphs(SubSeq(entry.segments, 1, Consumed(entry)))
    /\ ts_pc = "done" =>
           LET glyphs == ts_result.value.glyphs
               all == [k \in 1..Len(ts_paragraphs) |->
                          ExpectedGlyphs(ts_paragraphs[k])]
           IN  /\ Len(glyphs) = Len(ts_acc.glyphs)
               /\ \A k \in 1..Len(ts_paragraphs) :
                      \E from \in 0..Len(glyphs) :
                          /\ from + Len(all[k]) <= Len(glyphs)
                          /\ \A j \in 1..Len(all[k]) :
                                 <<glyphs[from + j].font, glyphs[from + j].c>>
                                     = all[k][j]

\* C14 witness: one text was typeset in which a bold character took the
\* regular variant of the second face, a character took '?' of the second
\* face, and a bold-italic character took the bold-italic variant.
C14_Witness ==
    /\ ts_pc = "done"
    /\ \E k \in 1..Len(ts_result.value.glyphs) :
           /\ ts_result.value.glyphs[k].font = <<2, "Regular", "Text">>
           /\ ts_result.value.glyphs[k].c = QUESTION_MARK
    /\ \E k \in 1..Len(ts_result.value.glyphs) :
           ts_result.value.glyphs[k].font = <<1, "Bold", "Text">>
    /\ \E k \in 1..Len(ts_result.value.glyphs) :
           ts_result.value.glyphs[k].font[2] \in {"BoldItalic", "Italic"}

(***************************************************************************)
(* NinePatch: the claims                                                   *)
(***************************************************************************)
Min(a, b) == IF a <= b THEN a ELSE b
Max(a, b) == IF a >= b THEN a ELSE b

\* The quadrilateral covers the unit square whose lower left corner is
\* (cx, cy): its corners are whole pixels, so it covers a unit square or
\* none of it.
Covers(quad, cx, cy) ==
    LET x1 == quad[1].position[1]
        x2 == quad[3].position[1]
        y1 == quad[1].position[2]
        y2 == quad[3].position[2]
    IN  /\ Min(x1, x2) <= cx /\ cx < Max(x1, x2)
        /\ Min(y1, y2) <= cy /\ cy < Max(y1, y2)

Coverage(quads, cx, cy) ==
    Cardinality({q \in 1..Len(quads) : Covers(quads[q], cx, cy)})

\* The unit squares any quadrilateral of a call can reach.
PixelRange == (0 - 2 * MaxMargin - 1)..(1 + MaxExtent + 2 * MaxMargin + 1)

\* C12: the nine quadrilaterals of generate_render_info tile the rectangle
\* (x, y)-(x + width, y + height): every unit square of the rectangle is
\* covered by exactly one of them and no unit square outside it by any.
C12_NinePatchTiling ==
    (np_result # None /\ np_result.value.info.kind = "ImageRegion") =>
        LET call == np_result.value
            quads == call.info.renderables
        IN  /\ Len(quads) = 9
            /\ \A cx \in PixelRange, cy \in PixelRange :
                   Coverage(quads, cx, cy) =
                       IF /\ call.x <= cx /\ cx < call.x + call.width
                          /\ call.y <= cy /\ cy < call.y + call.height
                       THEN 1
                       ELSE 0

\* The same for the calls whose rectangle is at least as wide as the left
\* and right margins together and as tall as the top and bottom ones.
C12_TilingWhenMarginsFit ==
    (/\ np_result # None
     /\ np_result.value.info.kind = "ImageRegion"
     /\ np_patch.left_margin + np_patch.right_margin <= np_result.value.width
     /\ np_patch.top_margin + np_patch.bottom_margin <= np_result.value.height) =>
        LET call == np_result.value
            quads == call.info.renderables
        IN  \A cx \in PixelRange, cy \in PixelRange :
                Coverage(quads, cx, cy) =
                    IF /\ call.x <= cx /\ cx < call.x + call.width
                       /\ call.y <= cy /\ cy < call.y + call.height
                    THEN 1
                    ELSE 0

\* Equality of fractions.
SameFraction(a, b) == a.num * b.den = b.num * a.den

\* A texture coordinate of the atlas expressed relative to the frame: 0 at
\* the frame's origin and 1 at its far edge.
RelativeToFrame(coordinate, origin, extent, atlas_extent) ==
    Fraction(coordinate.num * atlas_extent - origin * coordinate.den,
             coordinate.den * extent)

\* C13: relative to the frame of the region, whose size is texW x texH, the
\* texture coordinates of the nine quadrilaterals are the breakpoints
\* 0, l/texW, 1 - r/texW, 1 in u and 0, b/texH, 1 - t/texH, 1 in v, and the
\* quadrilateral (i, j) has breakpoints i, i+1 and j, j+1 in texture and in
\* position at the same corners.
C13_NinePatchBreakpoints ==
    (np_result # None /\ np_result.value.info.kind = "ImageRegion") =>
        LET call == np_result.value
            quads == call.info.renderables
            region == np_patch.texture_region.in_atlas
            frame == region.frame
            ub == << Fraction(0, 1),
                     Fraction(np_patch.left_margin, frame.w),
                     Fraction(frame.w - np_patch.right_margin, frame.w),
                     Fraction(1, 1) >>
            vb == << Fraction(0, 1),
                     Fraction(np_patch.bottom_margin, frame.h),
                     Fraction(frame.h - np_patch.top_margin, frame.h),
                     Fraction(1, 1) >>
            xb == << call.x, call.x + np_patch.left_margin,
                     call.x + call.width - np_patch.right_margin,
                     call.x + call.width >>
            yb == << call.y, call.y + np_patch.bottom_margin,
                     call.y + call.height - np_patch.top_margin,
                     call.y + call.height >>
            At(vertex, bi, bj) ==
                /\ vertex.position[1] = xb[bi]
                /\ vertex.position[2] = yb[bj]
                /\ SameFraction(
                       RelativeToFrame(vertex.tex_coords[1], frame.x, frame.w,
                                       region.partitioned_texture_size[1]),
                       ub[bi])
                /\ SameFraction(
                       RelativeToFrame(vertex.tex_coords[2], frame.y, frame.h,
                                       region.partitioned_texture_size[2]),
                       vb[bj])
        IN  /\ Len(quads) = 9
            /\ \A i \in 0..2, j \in 0..2 :
                   LET quad == quads[3 * i + j + 1]
                   IN  /\ At(quad[1], i + 1, j + 1)
                       /\ At(quad[2], i + 2, j + 1)
                       /\ At(quad[3], i + 2, j + 2)
                       /\ At(quad[4], i + 1, j + 2)

\* C13 witness: a nine-patch with four positive margins, over a frame that
\* is a proper part of its atlas and not at its origin, has been drawn.
C13_Witness ==
    /\ np_result # None
    /\ np_result.value.info.kind = "ImageRegion"
    /\ np_patch.left_margin > 0 /\ np_patch.right_margin > 0
    /\ np_patch.left_margin # np_patch.right_margin
    /\ np_patch.top_margin > 0 /\ np_patch.bottom_margin > 0
    /\ np_patch.texture_region.in_atlas.frame.x > 0
    /\ np_patch.texture_region.in_atlas.frame.y > 0
    /\ np_result.value.width > 0 /\ np_result.value.height > 0

(***************************************************************************)
(* get_font_id: the claims                                                 *)
(***************************************************************************)
Occurrences(seq, x) == Cardinality({i \in 1..Len(seq) : seq[i] = x})

\* C15: whatever the interleaving of the calls of get_font_id, two calls
\* return the same id exactly when they have the same specifier, and every
\* id returned was inserted into FONT_ID_TO_FONT_MAP once, with the font of
\* its specifier.
C15_FontIdRegistration ==
    /\ \A a \in fi_returns, b \in fi_returns : (a[1] = b[1]) <=> (a[2] = b[2])
    /\ \A a \in fi_returns :
           /\ a[2] \in DOMAIN FONT_ID_TO_FONT_MAP
           /\ FONT_ID_TO_FONT_MAP[a[2]] = VariantAsset(a[1])
           /\ Occurrences(fi_inserts, a[2]) = 1
           /\ a[1] \in DOMAIN FONT_ID_MAP
           /\ FONT_ID_MAP[a[1]] = a[2]

\* C15 witness: two tasks were in get_font_id with the same specifier at the
\* same time, one of them waiting for the lock, and ids for two specifiers
\* have been returned.
C15_Witness ==
    /\ \E t \in FontIdTasks, u \in FontIdTasks :
           /\ t # u
           /\ fi_tasks[t].pc = "return"
           /\ fi_tasks[u].pc = "lock_font_id_map"
           /\ fi_tasks[t].specifier = fi_tasks[u].specifier
           /\ \E a \in fi_returns : a[1] = fi_tasks[t].specifier.value
    /\ Cardinality(fi_returns) >= 2

(***************************************************************************)
(* Widget and UI: the claims                                               *)
(***************************************************************************)
\* The place of a widget among the children of its parent; 1 for a root.
IndexInParent(ws, w) ==
    IF HasParent(ws, w)
    THEN LET p == CHOOSE p \in Made(ws) :
                      \E i \in 1..Len(ws[p].children) : ws[p].children[i] = w
         IN  CHOOSE i \in 1..Len(ws[p].children) : ws[p].children[i] = w
    ELSE 1

\* The layout the solver gives the widget for the tree and the sizes as
\* they are now.
ExpectedLayout(ws, size, w) ==
    [available |-> size,
     size |-> ws[w].element.size,
     children |-> Len(ws[w].children),
     index |-> IndexInParent(ws, w)]

RECURSIVE RenderedElements(_)
\* The widgets whose element is in the MultiRenderable, each with the layout
\* it was rendered with.
RenderedElements(info) ==
    IF info.kind = "Nothing"
    THEN {}
    ELSE IF info.kind = "Layered"
    THEN RenderedElements(info.top)
    ELSE {[widget |-> info.widget, layout |-> info.element.layout]}
         \cup UNION {RenderedElements(info.items[i]) :
                         i \in 1..Len(info.items)}

RECURSIVE RenderedNothing(_)
\* The widgets that were rendered as MultiRenderable::Nothing.
RenderedNothing(info) ==
    IF info.kind = "Nothing"
    THEN {info.widget}
    ELSE IF info.kind = "Layered"
    THEN RenderedNothing(info.top)
    ELSE UNION {RenderedNothing(info.items[i]) : i \in 1..Len(info.items)}

\* C16: the MultiRenderable that UI::generate_render_info returns, when no
\* change was made while the call ran, has the element of every widget of
\* the tree, each with the layout of the tree, the text sizes and the UI
\* size as they are after the latest change.
C16_LayoutFreshness ==
    \A u \in UIIds :
        (ui_render[u] # None /\ ~ui_render[u].value.during_call) =>
            RenderedElements(ui_render[u].value.info) =
                {[widget |-> w,
                  layout |-> ExpectedLayout(widgets, uis[u].size, w)] :
                     w \in Descendants(widgets, uis[u].root)}

\* C16 witness: a render returned after the text was typeset to size 1 and
\* a widget that an earlier pass had laid out was taken out of the tree.
C16_Witness ==
    /\ ui_render[1] # None
    /\ ~ui_render[1].value.during_call
    /\ 3 \in Descendants(widgets, uis[1].root)
    /\ widgets[3].element.size = Points(1)
    /\ widgets[2].layout # None
    /\ 2 \notin Descendants(widgets, uis[1].root)

\* C17: every change of a widget tree that belongs to a UI - add_child,
\* clear_children, a committed typesetting of a text - and every update_size
\* stores true in the force_layout flag of that UI.
C17_DirtyMarking ==
    (last_mutation.kind # "none" /\ last_mutation.ui # None) =>
        last_mutation.stored = last_mutation.ui

\* C18: once a layout pass of generate_render_info is done and until the
\* next change, the force_layout flag of the UI is false.
C18_DirtyFlagCleared ==
    \A u \in UIIds :
        (/\ uis[u] # None
         /\ widgets[uis[u].root].layout # None
         /\ ~ui_mutated[u]) => ~uis[u].force_layout

\* C19: every widget in the tree of a live UI holds the handle of that UI's
\* flag, and a call of force_layout stores true in the flag of the UI the
\* widget is in, and in no flag when the widget is in no UI or its UI was
\* dropped.
C19_DirtySignalReachability ==
    /\ \A u \in UIIds :
           (uis[u] # None /\ uis[u].alive) =>
               \A w \in Descendants(widgets, uis[u].root) :
                   widgets[w].force_layout_signal = Some(u)
    /\ last_force.widget # 0 => last_force.stored = last_force.ui

\* C19 witness: force_layout was called on a widget two levels under the
\* root of the second UI and stored its flag.
C19_Witness ==
    /\ last_force.widget # 0
    /\ last_force.stored = Some(2)
    /\ \E p \in Made(widgets) :
           /\ p # uis[2].root
           /\ p \in Descendants(widgets, uis[2].root)
           /\ last_force.widget \in Descendants(widgets, p) \ {p}

\* C20: the layout of a widget changes only in a layout pass of a UI whose
\* tree the widget is in; after a pass every widget of the tree has a
\* layout; and a widget without a layout is rendered as Nothing, with
\* nothing of its children, while a widget with a layout is not.
C20_LayoutLifecycle ==
    /\ [][\A w \in WidgetIds :
              (widgets[w] # None /\ widgets'[w].layout # widgets[w].layout) =>
                  \E u \in UIIds :
                      /\ ui_pc[u] = "idle" /\ ui_pc'[u] = "laid_out"
                      /\ w \in Descendants(widgets, uis[u].root)
                      /\ widgets'[w].layout # None]_vars
    /\ [](\A u \in UIIds :
              (ui_pc[u] = "laid_out" /\ ~ui_mutated[u]) =>
                  \A w \in Descendants(widgets, uis[u].root) :
                      widgets[w].layout # None)
    /\ [](\A u \in UIIds :
              ui_render[u] # None =>
                  LET info == ui_render[u].value.info
                      shown == {e.widget : e \in RenderedElements(info)}
                  IN  /\ \A w \in RenderedNothing(info) :
                             /\ widgets[w].layout = None
                             /\ Descendants(widgets, w) \cap shown = {}
                      /\ \A w \in shown : widgets[w].layout # None)

\* C20 witness: a widget that was added with a child of its own while the
\* call ran, and so had no layout, was rendered as Nothing.
C20_Witness ==
    \E u \in UIIds :
        /\ ui_render[u] # None
        /\ \E w \in RenderedNothing(ui_render[u].value.info) :
               widgets[w].children # <<>>

(***************************************************************************)
(* Claims: rendering of widget backgrounds                                 *)
(***************************************************************************)
\* Path p is a background of a widget rendering and path q lies in that
\* widget's own Adjacent: below a common Layered node (Widget::
\* generate_render_info returns Layered([bg_1 .. bg_n, Adjacent([..])])), p is
\* the node of an earlier layer and q descends into a later layer that is an
\* Adjacent list.
BackgroundOf(p, q) ==
    \E k \in 1..Len(p) :
        /\ k = Len(p)
        /\ k + 1 <= Len(q)
        /\ SubSeq(p, 1, k - 1) = SubSeq(q, 1, k - 1)
        /\ p[k][1] = "Layered"
        /\ q[k][1] = "Layered"
        /\ p[k][2] < q[k][2]
        /\ q[k + 1][1] = "Adjacent"

\* C21 (as claimed): when a widget's Layered([backgrounds.., Adjacent([own
\* element, children..])]) is rendered by MultiBatch, every draw call holding
\* a renderable of a background is submitted before every draw call holding a
\* renderable or a word of the widget's own element or of its children.
C21_BackgroundsBehind ==
    \A i \in 1..Len(draws), j \in 1..Len(draws) :
        \A x \in Range(draws[i].items), y \in Range(draws[j].items) :
            BackgroundOf(x.path, y.path) => i < j

\* C21, the order fully inverted: a background is submitted in a draw call
\* made after a draw call of the widget's own content.
C21_BackgroundDrawnAfterContent ==
    \E i \in 1..Len(draws), j \in 1..Len(draws) :
        \E x \in Range(draws[i].items), y \in Range(draws[j].items) :
            BackgroundOf(x.path, y.path) /\ j < i

(***************************************************************************)
(* Claims: the final flush of Batch.render                                 *)
(***************************************************************************)
\* The step in which Batch.render leaves its loop and returns.
FinalFlushStep == b_pc = "loop" /\ b_pc' = "done"

\* C22 (as claimed): after consuming all input Batch.render always issues a
\* final flush that submits one draw call and then clears the accumulator,
\* also when nothing is pending.
C22_FinalFlushAlwaysDraws ==
    [][FinalFlushStep =>
          /\ flush_calls' = flush_calls + 1
          /\ Len(batch_draws') = Len(batch_draws) + 1
          /\ verts' = EmptyVec
          /\ inds' = EmptyVec]_vars

\* C22 (amended): after consuming all input Batch.render always calls flush,
\* which leaves both vectors empty; that flush submits one draw call, holding
\* all the pending vertices, exactly when at least one index is pending, and
\* none when nothing is pending.
C22_FinalFlush ==
    [][FinalFlushStep =>
          /\ flush_calls' = flush_calls + 1
          /\ verts' = EmptyVec
          /\ inds' = EmptyVec
          /\ IF IndsLen(inds) # 0
             THEN /\ Len(batch_draws') = Len(batch_draws) + 1
                  /\ SubSeq(batch_draws', 1, Len(batch_draws)) = batch_draws
                  /\ batch_draws'[Len(batch_draws')].verts = verts
             ELSE batch_draws' = batch_draws]_vars

\* A render call that returned after a final flush with nothing pending: the
\* input held no primitive and no draw call was made.
C22_Witness ==
    /\ b_pc = "done"
    /\ flush_calls = 1
    /\ batch_draws = <<>>
    /\ next_vertex = 1

(***************************************************************************)
(* Claims: Button                                                          *)
(***************************************************************************)
\* C23: whatever the sequence of mouse_enter, mouse_leave and
\* process_mouse_input events and of stores into the shared flag, a
\* process_mouse_input that read the flag as true does not call on_click; in
\* particular none does when the flag is true throughout the event.
C23_DisabledNotClickable ==
    btn_last.on_click => ~btn_last.disabled

\* A left-button release on a pressed button handled while the flag is true:
\* the event is reported as handled and on_click is not called.
C23_Witness ==
    /\ btn_last.button = "Left"
    /\ btn_last.state = "Released"
    /\ btn_last.before = "Pressed"
    /\ btn_last.disabled
    /\ btn_last.flag_at_return
    /\ btn_last.handled
    /\ ~btn_last.on_click
    /\ btn_clicks > 0

(***************************************************************************)
(* Claims: RichTextContentsBuilder.write                                   *)
(***************************************************************************)
\* The segments a builder holds.
SegmentsOf(b) ==
    UNION {Range(b.paragraphs[p]) : p \in 1..Len(b.paragraphs)}
        \cup Range(b.current_paragraph)

\* The maximal runs of non-whitespace characters of chars, in order, from
\* position i on, run being the run collected up to i.
RECURSIVE NonWhitespaceRuns(_, _, _)
NonWhitespaceRuns(chars, i, run) ==
    IF i > Len(chars)
    THEN IF run = <<>> THEN <<>> ELSE <<run>>
    ELSE IF is_whitespace(chars[i])
         THEN (IF run = <<>> THEN <<>> ELSE <<run>>)
                  \o NonWhitespaceRuns(chars, i + 1, <<>>)
         ELSE NonWhitespaceRuns(chars, i + 1, Append(run, chars[i]))

\* C24 (as claimed): write consumes the whitespace it splits at: no segment a
\* builder holds contains a whitespace character, and a builder that was
\* written to once holds exactly the maximal non-whitespace runs of the text
\* written, in order.
C24_WhitespaceConsumed ==
    \A id \in DOMAIN builders :
        /\ \A seg \in SegmentsOf(builders[id]) :
               \A k \in 1..Len(seg.text) : ~is_whitespace(seg.text[k])
        /\ \A text \in Texts :
               builders[id] =
                   write_maybe_glued(
                       NewBuilder(DefaultFamily, builders[id].max_width,
                                  builders[id].text_id), text, FALSE)
               => [k \in 1..Len(builders[id].current_paragraph) |->
                       builders[id].current_paragraph[k].text]
                  = NonWhitespaceRuns(text, 1, <<>>)

(***************************************************************************)
(* Claims: AssetPath                                                       *)
(***************************************************************************)
\* s without its elements at i and i + 1.
DropPair(s, i) == SubSeq(s, 1, i - 1) \o SubSeq(s, i + 2, Len(s))

\* The positions of s holding "..".
ParentPositions(s) == {i \in 1..Len(s) : s[i] = ".."}

\* s (free of ".") with each ".." cancelling the nearest preceding remaining
\* segment, leftmost ".." first; a ".." with nothing before it cannot cancel.
RECURSIVE Cancelled(_)
Cancelled(s) ==
    IF ParentPositions(s) = {}
    THEN AssetPath(s)
    ELSE LET i == CHOOSE i \in ParentPositions(s) :
                      \A j \in ParentPositions(s) : i <= j
         IN  IF i = 1 THEN Panicked ELSE Cancelled(DropPair(s, i - 1))

IsCurrentDir(segment_name) == segment_name = "."
NotCurrentDir(segment_name) == ~IsCurrentDir(segment_name)

\* C25: for every segment list, AssetPath::new returns the list with "."
\* removed and each ".." cancelling the nearest preceding remaining segment,
\* which holds no "." and no ".."; it panics exactly when a ".." is met with
\* no segment left to cancel; and called on the segments of a path it made,
\* it returns that path unchanged.
C25_AssetPathNormalised ==
    /\ ap_path # None =>
          /\ ap_path.value = Cancelled(SelectSeq(ap_segments, NotCurrentDir))
          /\ \A k \in 1..Len(ap_path.value.segments) :
                 ap_path.value.segments[k] \notin {".", ".."}
    /\ ap_again # None => ap_again = ap_path

\* A path made from a list with "." and "..", the ".." cancelling a name, and
\* made again from its own segments.
C25_Witness ==
    /\ ap_segments = <<"a", ".", "b", "..">>
    /\ ap_path = Some(AssetPath(<<"a">>))
    /\ ap_again # None

\* AssetPath::new panicked on a ".." that had nothing left to cancel, after
\* an earlier ".." had cancelled a segment.
C25_WitnessPanic ==
    /\ ap_segments = <<"a", "..", "..", "b">>
    /\ ap_path = Some(Panicked)

(***************************************************************************)
(* Claims: Camera                                                          *)
(***************************************************************************)
\* C26: whatever the sequence of get_projection_matrix, get_view_matrix,
\* get_data_mut (with writes through the reference it hands out) and
\* update_window_size calls, the matrix a getter returns is the matrix
\* generated from the camera data as it is at that call; and a cached matrix
\* a getter could return is never out of date.
C26_CameraCacheFresh ==
    /\ cam_returned.getter = "projection" =>
           cam_returned.matrix.value = generate_projection_matrix(camera.data)
    /\ cam_returned.getter = "view" =>
           cam_returned.matrix.value = generate_view_matrix(camera.data)
    /\ (~cam_borrowed /\ camera.projection_matrix # None) =>
           camera.projection_matrix.value
               = generate_projection_matrix(camera.data)
    /\ (~cam_borrowed /\ camera.view_matrix # None) =>
           camera.view_matrix.value = generate_view_matrix(camera.data)

\* A projection matrix returned for data that differs, in what the matrix
\* depends on, from the data the camera was made with.
C26_Witness ==
    /\ cam_returned.getter = "projection"
    /\ camera.data.aspect_ratio = <<1, 2>>
    /\ camera.data.view_height = 4
    /\ camera.view_matrix # None

(***************************************************************************)
(* Claims: TextureRegion.info                                              *)
(***************************************************************************)
\* What generate_render_info returned agrees with the info it found: Nothing
\* for an unset info, an ImageRegion of nine quadrilaterals for a set one.
AgreesWithInfo(result) ==
    IF result.region_info = None
    THEN result.info.kind = "Nothing"
    ELSE /\ result.info.kind = "ImageRegion"
         /\ Len(result.info.renderables) = 9

\* The info is written at most once, only by the callback, and never for a
\* name the atlas does not hold.
InfoWrittenOnce ==
    /\ info_writes <= 1
    /\ (np_patch.texture_region.info # None) =>
           /\ info_writes = 1
           /\ on_load_pc = "done"
           /\ np_patch.texture_region.info
                  = Some(np_patch.texture_region.in_atlas)
    /\ (np_patch.texture_region.in_atlas = None) =>
           np_patch.texture_region.info = None

\* C27 (as claimed): every generate_render_info returns, Nothing while the
\* info is unset and an ImageRegion of nine quadrilaterals once the on_load
\* callback has stored it; the callback of a loaded texture whose atlas holds
\* the name does store it; the info is written at most once; a name absent
\* from the atlas leaves it unset for good and the nine-patch rendering
\* Nothing, nothing failing.
C27_RegionInfoOnLoad ==
    /\ info_panics = {}
    /\ np_result # None => AgreesWithInfo(np_result.value)
    /\ InfoWrittenOnce

\* C27, what stands whether or not a try_lock failed: the calls that return
\* agree with the info, the info is written at most once, and with a name
\* absent from the atlas neither side ever fails and only Nothing is
\* rendered.
C27_RegionInfoWhenReturned ==
    /\ np_result # None => AgreesWithInfo(np_result.value)
    /\ InfoWrittenOnce
    /\ (np_patch.texture_region.in_atlas = None) =>
           /\ info_panics = {}
           /\ np_result # None => np_result.value.info.kind = "Nothing"

\* The render thread panicked while the callback held the lock.
C27_RenderPanicked == "render" \in info_panics

\* The callback panicked while generate_render_info held the lock: the info
\* of a region the atlas holds stays unset.
C27_CallbackPanicked ==
    /\ "on_load" \in info_panics
    /\ np_patch.texture_region.in_atlas # None
    /\ np_patch.texture_region.info = None
    /\ np_result # None

(***************************************************************************)
(* Claims: texture fidelity of MultiBatch                                  *)
(***************************************************************************)
\* C28 (as claimed): every Renderable handed to Batch.render is handed with
\* the texture of the Image/ImageRegion node that supplied it, whatever the
\* load states of the textures at the flushes.
C28_TextureFidelity ==
    \A i \in ShapeDraws :
        \A x \in Range(draws[i].items) : x.tex = draws[i].tex

\* C28, with no flush having found pending shapes whose committed texture was
\* not loaded: every renderable is drawn with its own node's texture.
C28_FidelityWithoutMiss ==
    (\A f \in 1..Len(flushes) : ~flushes[f].miss) => C28_TextureFidelity

(***************************************************************************)
(* Claims: the locks of typesetting                                        *)
(***************************************************************************)
\* Task t waits for a lock that cannot be granted.
Blocked(t) ==
    \/ /\ tl_tasks[t].pc = "lookup"
       /\ ~write_grantable(tl_locks[tl_tasks[t].font])
    \/ /\ tl_tasks[t].pc = "data"
       /\ tl_tasks[t].font = tl_tasks[t].glyph_in
       /\ ~write_grantable(tl_locks["FONT_ID_MAP"])
    \/ /\ tl_tasks[t].pc = "font_id_map"
       /\ ~write_grantable(tl_locks["FONT_ID_TO_FONT_MAP"])
    \/ /\ tl_tasks[t].pc = "kerning"
       /\ ~read_grantable(tl_locks["FONT_ID_TO_FONT_MAP"])
    \/ /\ tl_tasks[t].pc = "kerning_map"
       /\ ~read_grantable(tl_locks[tl_tasks[t].font])

\* C29 (as claimed): the typesetting tasks take the font data locks,
\* FONT_ID_MAP and FONT_ID_TO_FONT_MAP in an order that admits no cycle: in
\* no reachable state is every task blocked waiting for a lock another task
\* holds.
C29_TypesettingDeadlockFree ==
    ~(\A t \in TypesettingTasks : Blocked(t))

\* The cycle: one task, in get_font_id under a font's data write lock, waits
\* for FONT_ID_TO_FONT_MAP, which a kerning task holds for reading while it
\* waits for that font's data lock.
C29_LookupKerningCycle ==
    \E a \in TypesettingTasks, b \in TypesettingTasks :
        /\ tl_tasks[a].pc = "font_id_map"
        /\ tl_tasks[b].pc = "kerning_map"
        /\ tl_tasks[a].font = tl_tasks[b].font
        /\ tl_locks[tl_tasks[a].font].writer = a
        /\ b \in tl_locks["FONT_ID_TO_FONT_MAP"].readers

(***************************************************************************)
(* Claims: termination of typesetting                                      *)
(***************************************************************************)
\* s is a suffix of t and shorter than t.
StrictSuffix(s, t) ==
    /\ Len(s) < Len(t)
    /\ s = SubSeq(t, Len(t) - Len(s) + 1, Len(t))

\* C30 (as claimed): every typeset_rich_text_line call on a non-empty slice
\* returns an excess that is a strict suffix of the slice, also for a word
\* wider than max_width, so the loop of typeset_rich_text never goes round
\* on the same slice and typeset_rich_text returns.
C30_TypesettingTerminates ==
    /\ ts_pc # "stalled"
    /\ \A k \in 1..Len(ts_lines) :
           StrictSuffix(ts_lines[k].excess, ts_lines[k].segments)

\* C30, for the calls that place at least one glyph on their line or have no
\* max_width: the excess is a strict suffix of the slice.
C30_ProgressWhenWordFits ==
    \A k \in 1..Len(ts_lines) :
        (ts_lines[k].line # <<>> \/ ts_max_width = None)
            => StrictSuffix(ts_lines[k].excess, ts_lines[k].segments)

\* A line call that returned its whole input as excess, its first word being
\* wider than max_width.
C30_Stalled ==
    /\ ts_pc = "stalled"
    /\ ts_lines # <<>>
    /\ ts_lines[Len(ts_lines)].excess = ts_lines[Len(ts_lines)].segments
    /\ ts_lines[Len(ts_lines)].line = <<>>

(***************************************************************************)
(* Claims: contention on the Mutex of TextureRegion.info                   *)
(***************************************************************************)
\* C31 (as claimed): under every interleaving of the on_load callback with
\* the render thread's generate_render_info calls, no try_lock().unwrap()
\* finds the mutex held by the other side: neither side fails.
C31_NoLockContention ==
    /\ "render" \notin info_panics
    /\ "on_load" \notin info_panics
    /\ render_pc # "panicked"
    /\ on_load_pc # "panicked"

\* C31, where it stands: with the region's name absent from the atlas the
\* callback never takes the lock, and after the callback has ended no
\* generate_render_info fails.
C31_NoContentionWithoutCallbackLock ==
    /\ (np_patch.texture_region.in_atlas = None) => info_panics = {}
    /\ (on_load_pc \in {"done", "failed"} /\ info_panics = {})
           => info_lock \in {"free", "render"}


(***************************************************************************)
(* Batch: the draw calls against the expansion of the input                *)
(***************************************************************************)
\* The indices of one primitive whose first vertex is at position b of its
\* draw call: the triangle itself, or the fan 0-1-2, 0-2-3 of a quadrilateral.
FanOf(kind, b) ==
    IF kind = "Triangle"
    THEN << b, b + 1, b + 2 >>
    ELSE << b, b + 1, b + 2, b, b + 2, b + 3 >>

\* Whether the index sequence seq is the fans of whole primitives that take
\* up exactly nverts vertices from position b on, followed by at most `pad`
\* padding indices 0.
RECURSIVE WholePrimitives(_, _, _, _)
WholePrimitives(nverts, seq, b, pad) ==
    IF seq = <<>>
    THEN nverts = 0
    ELSE IF Len(seq) >= 6 /\ nverts >= 4
            /\ SubSeq(seq, 1, 6) = FanOf("Quadrilateral", b)
    THEN WholePrimitives(nverts - 4, SubSeq(seq, 7, Len(seq)), b + 4, pad)
    ELSE IF Len(seq) >= 3 /\ nverts >= 3
            /\ SubSeq(seq, 1, 3) = FanOf("Triangle", b)
    THEN WholePrimitives(nverts - 3, SubSeq(seq, 4, Len(seq)), b + 3, pad)
    ELSE nverts = 0 /\ pad = 1 /\ seq = << 0 >>

\* The vectors v and i hold whole primitives in input order, the first of
\* their vertices being vertex number `first` of the input.
ExpansionOf(v, i, first, pad) ==
    /\ v.q = i.q
    /\ v.t = i.t
    /\ \A k \in 1..VertsLen(v) : VertAt(v, k) = first + k - 1
    /\ \A n \in 0..(i.q - 1) :
           \A j \in 1..6 :
               IndAt(i, 6 * n + j) = FanOf("Quadrilateral", 4 * n)[j]
    /\ \A n \in 0..(i.t - 1) :
           \A j \in 1..3 :
               IndAt(i, 6 * i.q + 3 * n + j)
                   = FanOf("Triangle", 4 * i.q + 3 * n)[j]
    /\ WholePrimitives(Len(v.tail), i.tail, PriorVertsLen(v.q, v.t), pad)

\* The number of vertices in the first n draw calls.
RECURSIVE VerticesDrawn(_)
VerticesDrawn(n) ==
    IF n = 0 THEN 0
    ELSE VerticesDrawn(n - 1) + VertsLen(batch_draws[n].verts)

\* C32: the vertex lists of the draw calls of one render, one after the
\* other, are the input's vertices in input order; every draw call holds
\* whole primitives only, the indices of each being the triangle b, b+1, b+2
\* or the fan b, b+1, b+2, b, b+2, b+3 from the position b of its first
\* vertex within the draw call, positions counted from 0 in every draw call;
\* and when the render has returned no vertex is missing.
C32_ReferenceExpansion ==
    /\ \A n \in 1..Len(batch_draws) :
           ExpansionOf(batch_draws[n].verts, batch_draws[n].inds,
                       VerticesDrawn(n - 1) + 1, 1)
    /\ ExpansionOf(verts, inds, VerticesDrawn(Len(batch_draws)) + 1, 0)
    /\ VerticesDrawn(Len(batch_draws)) + VertsLen(verts) = next_vertex - 1
    /\ b_pc = "done" => VertsLen(verts) = 0 /\ IndsLen(inds) = 0

\* C32 witness: a render that returned after two draw calls, the first full
\* to capacity and the second holding a Quadrilateral followed by a Triangle
\* numbered from 0.
C32_Witness ==
    /\ b_pc = "done"
    /\ Len(batch_draws) = 2
    /\ VertsLen(batch_draws[1].verts) = MAX_VERTEX_COUNT
    /\ batch_draws[2].inds = [q |-> 0, t |-> 0,
                              tail |-> << 0, 1, 2, 0, 2, 3, 4, 5, 6, 0 >>]


\* Every index of the index vector i is the position of a vertex of v.
IndicesInRange(v, i) ==
    \A k \in 1..IndsLen(i) :
        /\ IndAt(i, k) >= 0
        /\ IndAt(i, k) < VertsLen(v)

\* C33: in every draw call every index, the padding index included, is
\* strictly less than the number of vertices of that draw call, and so it is
\* in the vectors being accumulated; the first and the greatest index of a
\* primitive just added are verts.len() and verts.len() + k as integers, and
\* these are below 2^16, so `as u16` and the u16 additions lose nothing.
C33_IndexValidity ==
    /\ \A n \in 1..Len(batch_draws) :
           IndicesInRange(batch_draws[n].verts, batch_draws[n].inds)
    /\ IndicesInRange(verts, inds)
    /\ last_add.kind # "None" =>
           LET len == IF last_add.flushed THEN 0 ELSE last_add.verts_before
               n   == IndsLen(inds)
           IN  /\ len + last_add.new_verts - 1 < U16
               /\ IndAt(inds, n - last_add.new_inds + 1) = len
               /\ IndAt(inds, n) = len + last_add.new_verts - 1
               /\ VertsLen(verts) = len + last_add.new_verts

\* C33 witness: a draw call within three vertices of MAX_VERTEX_COUNT and of
\* an odd number of indices before the padding, whose greatest index is the
\* last vertex and whose last index is the padding index 0.
C33_Witness ==
    \E n \in 1..Len(batch_draws) :
        LET d == batch_draws[n]
            m == IndsLen(d.inds)
        IN  /\ VertsLen(d.verts) > MAX_VERTEX_COUNT - 3
            /\ IndAt(d.inds, m) = 0
            /\ IndAt(d.inds, m - 1) = VertsLen(d.verts) - 1


(***************************************************************************)
(* MultiBatch: the text handed to the text renderer                        *)
(***************************************************************************)
\* The (offset, word) entries handed to draw_text by the draw calls ds, in
\* the order they were handed over.
RECURSIVE TextHandedOver(_)
TextHandedOver(ds) ==
    IF ds = <<>>
    THEN <<>>
    ELSE (IF ds[1].batch = "text" THEN ds[1].items ELSE <<>>)
             \o TextHandedOver(Tail(ds))

\* The node at path p is met before the node at path q by a depth-first walk.
DepthFirstBefore(p, q) ==
    \E k \in 1..Len(p) :
        /\ k <= Len(q)
        /\ SubSeq(p, 1, k - 1) = SubSeq(q, 1, k - 1)
        /\ p[k][2] < q[k][2]

\* The entry pushed for the Text node at path p.
TextEntry(p) == [path |-> p, src |-> "word", tex |-> Nothing, k |-> 1]

\* The text handed over so far followed by the text still pending.
TextSeen == TextHandedOver(draws) \o text_render_data

\* C34: the entries handed to the text renderer followed by the pending
\* entries are the Text nodes visited so far, each once and in depth-first
\* order; a step adds the entry of the Text node it visits, at the end, and
\* no other step adds, drops or repeats an entry, whatever the load state of
\* the textures; draw_text is never called with an empty list; and when
\* render has returned no entry is pending.
C34_TextConservation ==
    /\ [](/\ \A i, j \in 1..Len(TextSeen) :
                 i < j => DepthFirstBefore(TextSeen[i].path, TextSeen[j].path)
          /\ \A i \in TextDraws : draws[i].items # <<>>
          /\ mb_pc = "done" => text_render_data = <<>>)
    /\ [][ TextHandedOver(draws') \o text_render_data'
               = IF last_node'.kind = "Text"
                 THEN Append(TextSeen, TextEntry(last_node'.path))
                 ELSE TextSeen ]_vars

\* C34 witness: render has returned; one of its flushes handed two words to
\* the text renderer in one list while its pending shapes met a texture that
\* had not loaded.
C34_Witness ==
    /\ mb_pc = "done"
    /\ \E i \in TextDraws :
           /\ Len(draws[i].items) = 2
           /\ flushes[draws[i].flush].miss


\* C37: the visit of a Text node appends exactly one entry, that node's, to
\* the pending text, and the visit of a Nothing node leaves the pending text
\* as it is; neither changes the pending shapes or the committed shape
\* texture, makes a perform_render call or a draw call, or consults an asset.
C37_TextAndNothingVisits ==
    [][ /\ last_node'.kind = "Text" =>
               /\ text_render_data'
                      = text_render_data
                            \o << [path |-> last_node'.path, src |-> "word",
                                   tex |-> Nothing, k |-> 1] >>
               /\ Len(text_render_data') = Len(text_render_data) + 1
        /\ last_node'.kind = "Nothing" =>
               text_render_data' = text_render_data
        /\ last_node'.kind \in {"Text", "Nothing"} =>
               /\ batch_render_data' = batch_render_data
               /\ batch_render_texture' = batch_render_texture
               /\ draws' = draws
               /\ flushes' = flushes
               /\ loaded' = loaded
               /\ segment' = segment
      ]_vars

\* C37 witness: a Text node was just visited while shapes of a texture were
\* pending and a word was pending already.
C37_Witness ==
    /\ last_node.kind = "Text"
    /\ Len(text_render_data) = 2
    /\ batch_render_data # <<>>
    /\ batch_render_texture # Nothing
    /\ flushes = <<>>

\* A Nothing node was just visited while text and shapes were pending.
C37_WitnessNothing ==
    /\ last_node.kind = "Nothing"
    /\ text_render_data # <<>>
    /\ batch_render_data # <<>>
    /\ flushes = <<>>


(***************************************************************************)
(* MultiBatch: the flushes forced by layer boundaries                      *)
(***************************************************************************)
\* The perform_render calls made so far by Layered loops.
LayerFlushes == {k \in 1..Len(flushes) : flushes[k].cause = "layer"}

\* The flushes a Layered loop of n children has made once `index` of them
\* are walked; `flushed` tells whether the one before the next child is made.
FlushesMadeBy(n, index, flushed) ==
    IF index = 0 THEN 0
    ELSE IF index = n THEN n - 1
    ELSE (index - 1) + (IF flushed THEN 1 ELSE 0)

\* The flushes the open Layered loops of the frames fs have yet to make.
RECURSIVE FlushesDue(_)
FlushesDue(fs) ==
    IF fs = <<>>
    THEN 0
    ELSE (IF fs[1].kind = "Layered" /\ fs[1].n >= 1
          THEN (fs[1].n - 1) - FlushesMadeBy(fs[1].n, fs[1].index, fs[1].flushed)
          ELSE 0)
             + FlushesDue(Tail(fs))

\* C38: a Layered list of n children forces max(n - 1, 0) perform_render
\* calls: the calls made by Layered loops and those the open loops still owe
\* add up to the sum of n - 1 over the non-empty Layered lists met, and none
\* is owed once the walk is over; such a call is made inside a Layered list
\* only, before a child that is not the first, once; opening a Layered or an
\* Adjacent list makes no draw call and no perform_render call.
C38_LayerBoundaryFlushes ==
    /\ [](/\ Cardinality(LayerFlushes) + FlushesDue(stack) = boundaries
          /\ mb_pc # "walk" => Cardinality(LayerFlushes) = boundaries)
    /\ [][ /\ (Len(flushes') # Len(flushes)
                  /\ flushes'[Len(flushes')].cause = "layer") =>
                  /\ Len(flushes') = Len(flushes) + 1
                  /\ stack[Len(stack)].kind = "Layered"
                  /\ stack[Len(stack)].index >= 1
                  /\ stack[Len(stack)].index < stack[Len(stack)].n
                  /\ ~stack[Len(stack)].flushed
                  /\ stack'[Len(stack')].flushed
                  /\ Len(stack') = Len(stack)
           /\ last_node'.kind \in {"Layered", "Adjacent"} =>
                  /\ draws' = draws
                  /\ flushes' = flushes
         ]_vars

\* C38 witness: render has returned from a tree whose Layered lists have two
\* layer boundaries between them; two flushes were forced by them and none
\* by a change of texture.
C38_Witness ==
    /\ mb_pc = "done"
    /\ boundaries = 2
    /\ Cardinality(LayerFlushes) = 2
    /\ \A k \in 1..Len(flushes) : flushes[k].cause # "texture"


(***************************************************************************)
(* Claims: the click protocol of Button                                    *)
(***************************************************************************)
\* The states in which the left button is held down on the button.
HeldStates == {"Pressed", "PressedNotHovered"}

\* The step is the match of a process_mouse_input call.
InputProcessed == btn_pc = "loaded" /\ btn_pc' = "idle"

\* C35: on_click is called exactly by a process_mouse_input of a Left release
\* that finds the state Pressed and read the flag as false.  The button comes
\* to be held (Pressed or PressedNotHovered) only by a Left press that finds
\* it Hovered and read the flag as false, and every Left release ends the
\* hold, so a click follows such a press with no Left release in between and
\* the pointer is inside at the release.  Leaving while Pressed gives
\* PressedNotHovered, where a Left release gives Released, no click and
\* false.  An event of another mouse button leaves the state as it is and
\* returns false.
C35_ClickProtocol ==
    /\ [](/\ btn_last.on_click <=>
                 /\ btn_last.button = "Left"
                 /\ btn_last.state = "Released"
                 /\ btn_last.before = "Pressed"
                 /\ ~btn_last.disabled
          /\ btn_last.on_click => btn_state = "Hovered" /\ btn_last.handled
          /\ (btn_last.button = "Left" /\ btn_last.state = "Released"
                 /\ btn_last.before = "PressedNotHovered") =>
                 /\ btn_state = "Released"
                 /\ ~btn_last.on_click
                 /\ ~btn_last.handled
          /\ (btn_last.button \notin {"Left", "None"}) =>
                 /\ btn_state = btn_last.before
                 /\ ~btn_last.on_click
                 /\ ~btn_last.handled
          /\ mouse_leave("Pressed") = "PressedNotHovered"
          /\ mouse_enter("PressedNotHovered") = "Pressed"
          /\ \A s \in ButtonStates \ HeldStates :
                 /\ mouse_leave(s) \notin HeldStates
                 /\ mouse_enter(s) \notin HeldStates)
    /\ [][ /\ btn_clicks' = btn_clicks
                 + (IF InputProcessed /\ btn_last'.on_click THEN 1 ELSE 0)
           /\ (btn_state \notin HeldStates /\ btn_state' \in HeldStates) =>
                 /\ InputProcessed
                 /\ btn_last'.button = "Left"
                 /\ btn_last'.state = "Pressed"
                 /\ btn_last'.before = "Hovered"
                 /\ ~btn_last'.disabled
                 /\ btn_state' = "Pressed"
           /\ (InputProcessed /\ btn_last'.button = "Left"
                  /\ btn_last'.state = "Released") =>
                 btn_state' \notin HeldStates
           /\ (~InputProcessed /\ btn_state \in HeldStates) =>
                 btn_state' \in HeldStates
         ]_vars

\* C35 witness: the second click of a button, by a Left release that found
\* it Pressed with the flag read as false.
C35_Witness ==
    /\ btn_last.on_click
    /\ btn_last.before = "Pressed"
    /\ btn_state = "Hovered"
    /\ btn_clicks = MaxClicks

\* A Left release processed after the pointer had left the pressed button.
C35_WitnessOutside ==
    /\ btn_last.button = "Left"
    /\ btn_last.state = "Released"
    /\ btn_last.before = "PressedNotHovered"
    /\ btn_state = "Released"


(***************************************************************************)
(* Claims: the text a RichText ends up with                                *)
(***************************************************************************)
\* The set_text calls whose builder was finished and whose task has ended.
Finished == {commit_log[k].text_id : k \in 1..Len(commit_log)}

\* What the task of the set_text call `id` handed to write.
ResultOf(id) ==
    commit_log[CHOOSE k \in 1..Len(commit_log) : commit_log[k].text_id = id]

\* Every task spawned so far has run to completion.
AllTasksEnded == DOMAIN tasks = {}

\* C36 (as claimed): once every spawned typesetting task has run to
\* completion, the RichText holds the paragraphs and the TypesetText of the
\* most recent set_text call whose builder was finished: not those of an
\* older call, and not nothing.
C36_LatestFinishedTextCommitted ==
    (AllTasksEnded /\ Finished # {}) =>
        LET latest == CHOOSE id \in Finished : \A other \in Finished : other <= id
        IN  /\ rich_text.paragraphs = ResultOf(latest).paragraphs
            /\ rich_text.typeset = Some(ResultOf(latest).typeset_text)

\* What the code gives: once every spawned task has run to completion, the
\* RichText holds the result of the most recent set_text call if the builder
\* of that very call was finished; a result of an older call is discarded by
\* write as soon as a later set_text has been called, finished or not.
C36_LatestCallCommittedIfFinished ==
    /\ (AllTasksEnded /\ rich_text.current_text_id \in Finished) =>
           /\ rich_text.paragraphs
                  = ResultOf(rich_text.current_text_id).paragraphs
           /\ rich_text.typeset
                  = Some(ResultOf(rich_text.current_text_id).typeset_text)
    /\ \A k \in 1..Len(commit_log) :
           commit_log[k].text_id < commit_log[k].current_text_id =>
               (rich_text.typeset # Some(commit_log[k].typeset_text)
                    \/ \E j \in 1..Len(commit_log) :
                           /\ commit_log[j].text_id = commit_log[j].current_text_id
                           /\ commit_log[j].typeset_text
                                  = commit_log[k].typeset_text)

=============================================================================
